---- MODULE Spec2Model ----
(***************************************************************************)
(* TUNAX tax & penalty calculation engine (backend/utils/calculator.py)    *)
(* and the callers that persist its results (backend/resources/*.py).      *)
(*                                                                         *)
(* Number representation.  The program computes in binary floating point.  *)
(* Here a real number is an exact fraction <<n, d>> (d > 0) and a rounded  *)
(* monetary amount is an integer count of 10^-decimals dinars (millimes    *)
(* at the default precision of 3).  Binary representation error of floats  *)
(* is outside the model.                                                   *)
(***************************************************************************)
EXTENDS Integers, Sequences, FiniteSets, TLC

VARIABLES
    call,          \* arguments of the last calculator invocation
    result,        \* value that invocation returned
    now,           \* the wall clock <<year, month, day>> (datetime.utcnow())
    services,      \* rows of MunicipalServiceConfig
    properties,    \* committed rows of Property
    lands,         \* committed rows of Land
    declarations,  \* committed rows of Declaration
    taxes,         \* committed rows of Tax, by tax id
    response,      \* HTTP answer of the last request handler
    lastRead,      \* tax id -> date of the last penalty refresh, and whether
                   \* it replaced an older non-zero penalty (history)
    readers,       \* per concurrent request: position and session snapshot
    payments,      \* committed rows of Payment
    permits,       \* committed rows of Permit
    session,       \* what the last request handler did with db.session:
                   \* the tax rows it assigned to, and whether it committed
    cfgCache,      \* the class attribute TaxCalculator._cfg
    penaltySeen    \* arguments and amount of the first penalty computation
                   \* that was recorded (history)

vars == <<call, result, now, services, properties, lands, declarations, taxes,
          response, lastRead, readers, payments, permits, session, cfgCache, penaltySeen>>

calcVars == <<call, result>>
dbVars == <<properties, lands, declarations, taxes>>

(***************************************************************************)
(* Python values                                                           *)
(***************************************************************************)
\* Optional values: None is the empty set, a present value v is {v}.
None == {}

Some(v) == {v}

TheValue(opt) == CHOOSE v \in opt : TRUE

RECURSIVE GCD(_, _)
GCD(a, b) == IF b = 0 THEN a ELSE GCD(b, a % b)

Abs(n) == IF n < 0 THEN -n ELSE n

\* an exact real number n/d in lowest terms
Frac(n, d) ==
    LET g == GCD(Abs(n), d)
    IN  IF n = 0 THEN <<0, 1>> ELSE <<n \div g, d \div g>>

FMul(a, b) == Frac(a[1] * b[1], a[2] * b[2])

FLeq(a, b) == a[1] * b[2] <= b[1] * a[2]

FIsZero(a) == a[1] = 0

\* round n/d to the nearest integer, ties to the even neighbour
RoundHalfEven(n, d) ==
    LET q == n \div d
        r == n % d
    IN  IF 2 * r > d THEN q + 1
        ELSE IF 2 * r < d THEN q
        ELSE IF q % 2 = 0 THEN q ELSE q + 1

RECURSIVE Pow10(_)
Pow10(k) == IF k = 0 THEN 1 ELSE 10 * Pow10(k - 1)

(***************************************************************************)
(* str.lower() and str.strip() on the strings the model feeds in           *)
(***************************************************************************)
lower(s) ==
    CASE s = "HAUTE_DENSITE" -> "haute_densite"
      [] s = "Faible_Densite" -> "faible_densite"
      [] s = "Centre" -> "centre"
      [] s = "Nord" -> "nord"
      [] s = " Centre " -> " centre "
      [] s = "Agricole" -> "agricole"
      [] s = "AGRICOLE" -> "agricole"
      [] s = "Agricultural" -> "agricultural"
      [] s = "Lieu de Culte" -> "lieu de culte"
      [] OTHER -> s

strip(s) ==
    CASE s = " Centre " -> "Centre"
      [] s = " centre " -> "centre"
      [] s = " " -> ""
      [] OTHER -> s

(***************************************************************************)
(* Configuration table (TaxCalculator._load_config defaults)               *)
(***************************************************************************)
currency_decimals == 3

\* cfg.get(section, {}).get('rounding', {}).get('currency_decimals', 3)
round_default_decimals == 3

Sections == {"TIB", "TTNB"}

\* cfg[section]['rounding']['currency_decimals']
_load_config == [s \in Sections |-> [rounding |-> [currency_decimals |-> currency_decimals]]]

\* cls._cfg between its assignment and the last setdefault: only the first
\* default of the TIB section is in place
PartialConfig == [TIB |-> [surface_categories |-> <<"A", "B", "C", "D">>]]

\* variant: a later call replaces the cached table by one with 2 decimals
config_loaded_reset(cache) ==
    IF cache = None THEN Some(_load_config)
    ELSE Some([s \in Sections |-> [rounding |-> [currency_decimals |-> 2]]])

\* TaxCalculator._cfg after a call of _load_config: loaded once, then kept
config_loaded(cache) == IF cache = None THEN Some(_load_config) ELSE cache

\* cfg = cls._load_config(), as seen by the call that is being made
cfg == TheValue(config_loaded(cfgCache))

\* the precision a configuration sets for a section, 3 when it sets none
section_decimals(config, section) ==
    IF section \in DOMAIN config /\ "rounding" \in DOMAIN config[section]
    THEN config[section].rounding.currency_decimals
    ELSE round_default_decimals

\* variant: the precision of the configuration is ignored, 3 decimals always
_round_fixed(amount, section) ==
    LET scale == Pow10(round_default_decimals)
        g == GCD(scale, amount[2])
    IN  RoundHalfEven(amount[1] * (scale \div g), amount[2] \div g)

\* TaxCalculator._round: round(float(amount), decimals); the result is the
\* integer number of 10^-decimals units (round-half-even on the exact value)
_round(amount, section) ==
    LET decimals == TheValue({section_decimals(c, section) : c \in config_loaded(cfgCache)})
        scale == Pow10(decimals)
        g == GCD(scale, amount[2])
    IN  RoundHalfEven(amount[1] * (scale \div g), amount[2] \div g)

(***************************************************************************)
(* Exemption rules (TaxCalculator._years_since, _match_exemption)          *)
(***************************************************************************)
Max(a, b) == IF a >= b THEN a ELSE b

\* cfg.get(kind, {}).get('exemptions', [])
exemptions(kind) ==
    IF kind \in DOMAIN cfg /\ "exemptions" \in DOMAIN cfg[kind]
    THEN cfg[kind].exemptions ELSE <<>>

\* context.get(key): None when the key is missing
context_get(context, key) ==
    IF key \in DOMAIN context THEN Some(context[key]) ELSE None

\* (context.get(key) or '').lower()
lowered(context, key) ==
    IF context_get(context, key) = None THEN ""
    ELSE lower(TheValue(context_get(context, key)))

\* [str(x).lower() for x in cond[key]]
allowed(cond, key) == {lower(cond[key][k]) : k \in DOMAIN cond[key]}

\* if not year: return None; max(0, datetime.utcnow().year - int(year))
_years_since(year) ==
    IF year = None \/ year = Some(0) THEN None
    ELSE Some(Max(0, now[1] - TheValue(year)))

\* the body of the loop: ok after the four condition checks
rule_ok(rule, context) ==
    LET cond == IF "conditions" \in DOMAIN rule THEN rule.conditions ELSE <<>>
        years == _years_since(context_get(context, "construction_year"))
    IN  /\ "affectation_in" \in DOMAIN cond =>
              lowered(context, "affectation") \in allowed(cond, "affectation_in")
        /\ "land_type_in" \in DOMAIN cond =>
              lowered(context, "land_type") \in allowed(cond, "land_type_in")
        /\ "exemption_reason_in" \in DOMAIN cond =>
              lowered(context, "exemption_reason") \in allowed(cond, "exemption_reason_in")
        /\ "max_age_years" \in DOMAIN cond =>
              ~(years = None \/ TheValue(years) > cond.max_age_years)

\* for rule in rules: ... if ok: return rule; return None
RECURSIVE scan_rules(_, _, _)
scan_rules(rules, context, k) ==
    IF k > Len(rules) THEN None
    ELSE IF rule_ok(rules[k], context) THEN Some(rules[k])
    ELSE scan_rules(rules, context, k + 1)

\* variant: the loop keeps going and the last rule that is ok is returned
_match_exemption_last(kind, context) ==
    LET rules == exemptions(kind)
        ok == {k \in DOMAIN rules : rule_ok(rules[k], context)}
    IN  IF ok = {} THEN None
        ELSE Some(rules[CHOOSE k \in ok : \A h \in ok : h <= k])

\* rules = cfg.get(kind, {}).get('exemptions', []); the loop over rules
_match_exemption(kind, context) == scan_rules(exemptions(kind), context, 1)

(***************************************************************************)
(* calculate_tib                                                           *)
(***************************************************************************)
\* An attribute holding Python's None where a number is expected is a field
\* left out of the record; float(None) raises TypeError.
IsNumber(obj, attr) == attr \in DOMAIN obj

\* the call ends by raising exc: nothing is returned to the caller
Raised(exc) == [raised |-> exc]

\* variant: the exempt result keeps the tax of a standard asset and drops the reason
exempt_result_taxed(obj) ==
    [base_amount |-> 0, rate_percent |-> 0, tax_amount |-> 1000,
     total_amount |-> 1000, exemption_reason |-> None]

\* the all-zero result of an asset flagged is_exempt
exempt_result(obj) ==
    [base_amount |-> 0, rate_percent |-> 0, tax_amount |-> 0,
     total_amount |-> 0, exemption_reason |-> obj.exemption_reason]

\* variant: the upper bound of each band belongs to the next band
tib_category_exclusive(surface) ==
    IF ~FLeq(<<100, 1>>, surface) THEN 1
    ELSE IF ~FLeq(<<200, 1>>, surface) THEN 2
    ELSE IF ~FLeq(<<400, 1>>, surface) THEN 3
    ELSE 4

\* Step 1: TIB category from the covered surface
tib_category(surface) ==
    IF FLeq(surface, <<100, 1>>) THEN 1
    ELSE IF FLeq(surface, <<200, 1>>) THEN 2
    ELSE IF FLeq(surface, <<400, 1>>) THEN 3
    ELSE 4

\* Step 3: assiette = 0.02 * (ref_price_per_m2 * surface)
tib_assiette(ref_price_per_m2, surface) ==
    FMul(Frac(2, 100), FMul(ref_price_per_m2, surface))

\* the characters of the strings a LIKE comparison is made on
chars(s) ==
    CASE s = "centre" -> <<"c", "e", "n", "t", "r", "e">>
      [] s = "nord" -> <<"n", "o", "r", "d">>
      [] s = "%" -> <<"%">>

\* SQL LIKE: % stands for any run of characters, _ for any one character
RECURSIVE like(_, _)
like(value, pattern) ==
    IF pattern = <<>> THEN value = <<>>
    ELSE IF Head(pattern) = "%"
    THEN like(value, Tail(pattern)) \/ (value # <<>> /\ like(Tail(value), pattern))
    ELSE /\ value # <<>>
         /\ (Head(pattern) = "_" \/ Head(pattern) = Head(value))
         /\ like(Tail(value), Tail(pattern))

\* column.ilike(pattern): lower(column) LIKE lower(pattern)
ilike(value, pattern) == like(chars(lower(value)), chars(lower(pattern)))

\* Step 4: count the available services of the locality, else of the commune
tib_services_count(property_obj, store) ==
    LET base_query == {r \in store :
                          /\ property_obj.commune_id = Some(r.commune_id)
                          /\ r.is_available}
        locality_name == strip(IF property_obj.delegation = None THEN ""
                               ELSE TheValue(property_obj.delegation))
        locality_services ==
            Cardinality({r \in base_query :
                            /\ r.locality_name # None
                            /\ ilike(TheValue(r.locality_name), locality_name)})
        services_count == IF locality_name # "" THEN locality_services ELSE 0
    IN  IF services_count = 0
        THEN Cardinality({r \in base_query : r.locality_name = None})
        ELSE services_count

\* variant: bands of the built-in service_rates table (thresholds 0, 2, 3, 4)
tib_service_rate_cfg(services_count) ==
    IF services_count >= 4 THEN Frac(14, 100)
    ELSE IF services_count >= 3 THEN Frac(12, 100)
    ELSE IF services_count >= 2 THEN Frac(10, 100)
    ELSE Frac(8, 100)

\* Step 5: service rate from the number of services
tib_service_rate(services_count) ==
    IF services_count <= 2 THEN Frac(8, 100)
    ELSE IF services_count <= 4 THEN Frac(10, 100)
    ELSE IF services_count <= 6 THEN Frac(12, 100)
    ELSE Frac(14, 100)

\* variant: the rate added to the base as a surcharge, assiette * (1 + rate)
tib_amount_surcharge(assiette, service_rate) ==
    FMul(assiette, Frac(service_rate[2] + service_rate[1], service_rate[2]))

\* Step 6: TIB = assiette * service rate
tib_amount(assiette, service_rate) == FMul(assiette, service_rate)

\* service_rate * 100, a whole number of percent
rate_percent_of(service_rate) == (service_rate[1] * 100) \div service_rate[2]

calculate_tib(property_obj, store) ==
    IF property_obj.is_exempt
    THEN exempt_result(property_obj)
    ELSE IF ~IsNumber(property_obj, "surface_couverte")
    THEN Raised("TypeError")
    ELSE
      LET surface == property_obj.surface_couverte
          category == tib_category(surface)
          ref_price_per_m2 == property_obj.reference_price_per_m2
      IN  IF ref_price_per_m2 = None \/ FIsZero(TheValue(ref_price_per_m2))
          THEN [error |-> <<"Reference price per m2 required for category", category>>]
          ELSE
            LET assiette == tib_assiette(TheValue(ref_price_per_m2), surface)
                services_count == tib_services_count(property_obj, store)
                service_rate == tib_service_rate(services_count)
                amount == tib_amount(assiette, service_rate)
            IN  [base_amount |-> _round(assiette, "TIB"),
                 rate_percent |-> rate_percent_of(service_rate),
                 tax_amount |-> _round(amount, "TIB"),
                 total_amount |-> _round(amount, "TIB"),
                 category |-> category,
                 services_count |-> services_count]

(***************************************************************************)
(* calculate_ttnb                                                          *)
(***************************************************************************)
VALID_ZONES == <<"haute_densite", "densite_moyenne", "faible_densite", "peripherique">>

\* variant: the tariffs of the two sparsest zones exchanged
ZONE_TARIFFS_swapped(key) ==
    CASE key = "haute_densite" -> Some(Frac(1200, 1000))
      [] key = "densite_moyenne" -> Some(Frac(800, 1000))
      [] key = "faible_densite" -> Some(Frac(200, 1000))
      [] key = "peripherique" -> Some(Frac(400, 1000))
      [] OTHER -> None

\* ZONE_TARIFFS.get(key): tariff in TND per m2, None for an unknown key
ZONE_TARIFFS(key) ==
    CASE key = "haute_densite" -> Some(Frac(1200, 1000))
      [] key = "densite_moyenne" -> Some(Frac(800, 1000))
      [] key = "faible_densite" -> Some(Frac(400, 1000))
      [] key = "peripherique" -> Some(Frac(200, 1000))
      [] OTHER -> None

\* variant: an unknown zone silently gets the peripheral tariff
zone_tariff_default(urban_zone) ==
    IF ZONE_TARIFFS(lower(urban_zone)) = None
    THEN Some(Frac(200, 1000))
    ELSE ZONE_TARIFFS(lower(urban_zone))

\* tariff = ZONE_TARIFFS.get(urban_zone.lower())
zone_tariff(urban_zone) == ZONE_TARIFFS(lower(urban_zone))

\* Step 3: TTNB = surface * tariff
ttnb_amount(surface, tariff) == FMul(surface, tariff)

calculate_ttnb(land_obj) ==
    IF land_obj.is_exempt
    THEN exempt_result(land_obj)
    ELSE IF land_obj.urban_zone = None \/ land_obj.urban_zone = Some("")
    THEN [error |-> "Urban zone classification required",
          valid_zones |-> VALID_ZONES,
          message |-> "TTNB cannot be calculated without urban zone classification per Decret 2017-396"]
    ELSE
      LET urban_zone == TheValue(land_obj.urban_zone)
          tariff == zone_tariff(urban_zone)
      IN  IF tariff = None \/ FIsZero(TheValue(tariff))
          THEN [error |-> <<"Invalid urban zone", urban_zone>>,
                valid_zones |-> VALID_ZONES]
          ELSE IF ~IsNumber(land_obj, "surface")
          THEN Raised("TypeError")
          ELSE
            LET surface == land_obj.surface
            IN  IF FLeq(surface, <<0, 1>>)
                THEN [error |-> "Land surface must be greater than 0"]
                ELSE
                  LET amount == ttnb_amount(surface, TheValue(tariff))
                  IN  [base_amount |-> _round(amount, "TTNB"),
                       rate_percent |-> 0,
                       tax_amount |-> _round(amount, "TTNB"),
                       total_amount |-> _round(amount, "TTNB"),
                       zone |-> urban_zone,
                       tariff_per_m2 |-> TheValue(tariff),
                       surface_m2 |-> surface]

(***************************************************************************)
(* compute_late_payment_penalty_for_year                                   *)
(***************************************************************************)
\* datetime comparison a < b on <<year, month, day>>
DateLt(a, b) ==
    \/ a[1] < b[1]
    \/ a[1] = b[1] /\ a[2] < b[2]
    \/ a[1] = b[1] /\ a[2] = b[2] /\ a[3] < b[3]

\* variant: no grace year, penalties from Jan 1 of (tax_year + 1)
penalty_start_no_grace(tax_year) == <<tax_year + 1, 1, 1>>

\* penalties begin Jan 1 of (tax_year + 2)
penalty_start(tax_year) == <<tax_year + 2, 1, 1>>

\* variant: the month that has begun counts as elapsed
months_elapsed_begun(start, today) ==
    LET m == (today[1] - start[1]) * 12 + (today[2] - start[2]) + 1
    IN  IF m < 0 THEN 0 ELSE m

\* full months from start to today
months_elapsed(start, today) ==
    LET m == (today[1] - start[1]) * 12 + (today[2] - start[2])
    IN  IF m < 0 THEN 0 ELSE m

\* tax_amount: principal as an exact fraction of a dinar; a tax_year of 0
\* stands for every falsy tax_year (None, 0)
compute_late_payment_penalty_for_year(tax_amount, tax_year, section, today) ==
    IF tax_year = 0 THEN 0
    ELSE
      LET start == penalty_start(tax_year)
      IN  IF DateLt(today, start) THEN 0
          ELSE _round(FMul(FMul(tax_amount, Frac(125, 10000)),
                           <<months_elapsed(start, today), 1>>), section)

(***************************************************************************)
(* Bounds and input domains                                                *)
(***************************************************************************)
MaxServices == 8

MinYear == 2024

MaxYear == 2027

Days == {1, 15, 28}

Dates == {<<y, m, d>> : y \in MinYear..MaxYear, m \in 1..12, d \in Days}

TaxYears == {2023, 2024, 2025}

\* rows of MunicipalServiceConfig: w commune-wide and l locality rows of
\* commune 1, next to rows the query must not count
ServiceStore(w, l) ==
    {[id |-> i, commune_id |-> 1, locality_name |-> None, is_available |-> TRUE] : i \in 1..w}
    \cup {[id |-> 20 + i, commune_id |-> 1,
           locality_name |-> Some(IF i % 2 = 0 THEN "Centre" ELSE "centre"),
           is_available |-> TRUE] : i \in 1..l}
    \cup {[id |-> 41, commune_id |-> 1, locality_name |-> None, is_available |-> FALSE],
          [id |-> 42, commune_id |-> 2, locality_name |-> None, is_available |-> TRUE],
          [id |-> 43, commune_id |-> 1, locality_name |-> Some("Nord"), is_available |-> TRUE]}

ServiceStores == {ServiceStore(w, l) : w \in 0..MaxServices, l \in {0, 1, 3, MaxServices}}

PropertySnapshots ==
    [surface_couverte : {<<150, 1>>, <<10001, 100>>, <<3333, 100>>, <<0, 1>>, <<-50, 1>>,
                         <<100, 1>>, <<200, 1>>, <<400, 1>>, <<401, 1>>},
     reference_price_per_m2 : {None, Some(<<0, 1>>), Some(<<200, 1>>), Some(<<2005, 10>>)},
     commune_id : {Some(1)},
     delegation : {None, Some(" "), Some("Centre"), Some("%")},
     is_exempt : BOOLEAN,
     exemption_reason : {None, Some("lieu de culte")}]
    \cup [reference_price_per_m2 : {None, Some(<<200, 1>>)},
          commune_id : {Some(1)},
          delegation : {None},
          is_exempt : BOOLEAN,
          exemption_reason : {None}]

LandSnapshots ==
    [surface : {<<5000, 1>>, <<12345, 10000>>, <<0, 1>>, <<-20, 1>>},
     urban_zone : {None, Some(""), Some("haute_densite"), Some("densite_moyenne"),
                   Some("faible_densite"), Some("peripherique"),
                   Some("HAUTE_DENSITE"), Some("Faible_Densite"), Some("unknown_zone")},
     is_exempt : BOOLEAN,
     exemption_reason : {None, Some("lieu de culte")}]
    \cup [urban_zone : {None, Some("haute_densite"), Some("unknown_zone")},
          is_exempt : BOOLEAN,
          exemption_reason : {None}]

Principals == {<<0, 1>>, <<100, 1>>, <<60, 1>>, <<33333, 1000>>, <<2000, 1>>, <<1, 100>>}

NoCall == [fn |-> "none"]

NoResult == [pending |-> TRUE]

NoResponse == [status |-> 0]

\* a db.session nothing was assigned to and that was not committed
NoSession == [assigned |-> {}, committed |-> FALSE]

(***************************************************************************)
(* The calculators as called by the public estimate endpoint and by tests  *)
(***************************************************************************)
\* the call got as far as cls._round, which reads the configuration
UsesConfig(res) == "services_count" \in DOMAIN res \/ "zone" \in DOMAIN res

PenaltyUsesConfig(tax_year, today) ==
    tax_year # 0 /\ ~DateLt(today, penalty_start(tax_year))

\* a recorded penalty computation has been followed by another call
Later(seen) ==
    IF seen = None THEN None ELSE Some([TheValue(seen) EXCEPT !.later = TRUE])

SysIdle ==
    /\ now = <<MinYear, 1, 1>>
    /\ properties = {}
    /\ lands = {}
    /\ declarations = {}
    /\ taxes = <<>>
    /\ response = NoResponse
    /\ lastRead = <<>>
    /\ readers = <<>>
    /\ payments = {}
    /\ permits = {}
    /\ session = NoSession
    /\ cfgCache = None
    /\ penaltySeen = None

CalcInit ==
    /\ call = NoCall
    /\ result = NoResult
    /\ services \in ServiceStores
    /\ SysIdle

CallTib ==
    /\ call = NoCall
    /\ \E property_obj \in PropertySnapshots :
          /\ call' = [fn |-> "calculate_tib", obj |-> property_obj]
          /\ result' = calculate_tib(property_obj, services)
          /\ cfgCache' = IF UsesConfig(calculate_tib(property_obj, services))
                         THEN config_loaded(cfgCache) ELSE cfgCache
    /\ penaltySeen' = Later(penaltySeen)
    /\ UNCHANGED <<now, services, dbVars, response, lastRead, readers, payments, permits, session>>

CallTtnb ==
    /\ call = NoCall
    /\ \E land_obj \in LandSnapshots :
          /\ call' = [fn |-> "calculate_ttnb", obj |-> land_obj]
          /\ result' = calculate_ttnb(land_obj)
          /\ cfgCache' = IF UsesConfig(calculate_ttnb(land_obj))
                         THEN config_loaded(cfgCache) ELSE cfgCache
    /\ penaltySeen' = Later(penaltySeen)
    /\ UNCHANGED <<now, services, dbVars, response, lastRead, readers, payments, permits, session>>

CallPenalty ==
    /\ call = NoCall
    /\ \E tax_amount \in Principals, tax_year \in TaxYears \cup {0},
          section \in Sections, today \in Dates :
          /\ call' = [fn |-> "compute_late_payment_penalty_for_year",
                      tax_amount |-> tax_amount, tax_year |-> tax_year,
                      section |-> section, today |-> today]
          /\ result' = [amount |-> compute_late_payment_penalty_for_year(
                                       tax_amount, tax_year, section, today)]
          /\ cfgCache' = IF PenaltyUsesConfig(tax_year, today)
                         THEN config_loaded(cfgCache) ELSE cfgCache
    /\ penaltySeen' = Later(penaltySeen)
    /\ UNCHANGED <<now, services, dbVars, response, lastRead, readers, payments, permits, session>>

\* the caller consumes the returned value
Return ==
    /\ call # NoCall
    /\ call' = NoCall
    /\ result' = NoResult
    /\ UNCHANGED <<now, services, dbVars, response, lastRead, readers, payments, permits, session, cfgCache, penaltySeen>>

CalcNext == CallTib \/ CallTtnb \/ CallPenalty \/ Return

SpecCalc == CalcInit /\ [][CalcNext]_vars

(***************************************************************************)
(* Repeated penalty computations among other calls and other threads       *)
(***************************************************************************)
IdemPrincipals == {<<100, 1>>, <<33333, 1000>>}

IdemDates == {<<y, m, 15>> : y \in MinYear..MaxYear, m \in {1, 6, 12}}

IdemInit ==
    /\ call = NoCall
    /\ result = NoResult
    /\ services = ServiceStore(3, 0)
    /\ SysIdle

\* a penalty computation; the first one may be recorded for later comparison
IdemCallPenalty ==
    /\ call = NoCall
    /\ \E tax_amount \in IdemPrincipals, tax_year \in TaxYears \cup {0},
          section \in Sections, today \in IdemDates :
          LET amount == compute_late_payment_penalty_for_year(
                            tax_amount, tax_year, section, today)
              args == [tax_amount |-> tax_amount, tax_year |-> tax_year,
                       section |-> section, today |-> today]
          IN  /\ call' = [fn |-> "compute_late_payment_penalty_for_year",
                          tax_amount |-> tax_amount, tax_year |-> tax_year,
                          section |-> section, today |-> today]
              /\ result' = [amount |-> amount]
              /\ cfgCache' = IF PenaltyUsesConfig(tax_year, today)
                             THEN config_loaded(cfgCache) ELSE cfgCache
              /\ \/ penaltySeen' = Later(penaltySeen)
                 \/ /\ penaltySeen = None
                    /\ penaltySeen' = Some([args |-> args, amount |-> amount,
                                            later |-> FALSE])
    /\ UNCHANGED <<now, services, dbVars, response, lastRead, readers, payments, permits, session>>

\* another thread is inside _load_config: cls._cfg is assigned, the defaults
\* are not yet all set
LoadConfigBegin ==
    /\ cfgCache = None
    /\ cfgCache' = Some(PartialConfig)
    /\ UNCHANGED <<call, result, now, services, dbVars, response, lastRead, readers,
                   payments, permits, session, penaltySeen>>

\* that thread has set the remaining defaults
LoadConfigEnd ==
    /\ cfgCache = Some(PartialConfig)
    /\ cfgCache' = Some(_load_config)
    /\ UNCHANGED <<call, result, now, services, dbVars, response, lastRead, readers,
                   payments, permits, session, penaltySeen>>

IdemNext ==
    \/ IdemCallPenalty
    \/ CallTib
    \/ CallTtnb
    \/ Return
    \/ LoadConfigBegin
    \/ LoadConfigEnd

SpecIdem == IdemInit /\ [][IdemNext]_vars

(***************************************************************************)
(* Persistence: the SQLAlchemy session of one request                      *)
(***************************************************************************)
Communes == {1, 2}

Users == {1}

PAID == "paid"

CALCULATED == "calculated"

Database == [properties |-> properties, lands |-> lands,
             declarations |-> declarations, taxes |-> taxes]

NoPending == [properties |-> {}, lands |-> {}, declarations |-> {}, taxes |-> <<>>]

\* variant: the rows flushed before the failure stay in the database
session_rollback_keeps_flushed(db, pending) ==
    [properties |-> db.properties \cup pending.properties,
     lands |-> db.lands \cup pending.lands,
     declarations |-> db.declarations \cup pending.declarations,
     taxes |-> db.taxes]

\* db.session.rollback(): every row added or flushed in the session is dropped
session_rollback(db, pending) == db

\* db.session.commit(): the rows added in the session become durable
session_commit(db, pending) ==
    [properties |-> db.properties \cup pending.properties,
     lands |-> db.lands \cup pending.lands,
     declarations |-> db.declarations \cup pending.declarations,
     taxes |-> pending.taxes @@ db.taxes]

\* autoincrement primary key
NextId(rows) == Cardinality(rows) + 1

NextTaxId(db) == Cardinality(DOMAIN db.taxes) + 1

\* Tax(...): penalty_amount takes the column default 0
Tax(id, property_id, land_id, tax_type, tax_year, base_amount, rate_percent, tax_amount, total_amount) ==
    [id |-> id, property_id |-> property_id, land_id |-> land_id,
     tax_type |-> tax_type, tax_year |-> tax_year,
     base_amount |-> base_amount, rate_percent |-> rate_percent,
     tax_amount |-> tax_amount, penalty_amount |-> 0,
     total_amount |-> total_amount, status |-> CALCULATED]

(***************************************************************************)
(* declare_property (resources/tib.py)                                     *)
(***************************************************************************)
PropertyRequests ==
    [commune_id : {Some(1)},
     street_address : {"12 rue de Carthage"},
     surface_couverte : {<<150, 1>>},
     reference_price_per_m2 : {None, Some(<<200, 1>>)},
     is_exempt : BOOLEAN,
     exemption_reason : {None}]

\* a request without reference price for a property that is not exempt
RequestWithoutPrice == CHOOSE d \in PropertyRequests :
                          d.reference_price_per_m2 = None /\ ~d.is_exempt

\* what GeoLocator and the Tunisia bounds test make of the address
GeoOutcomes == {"located", "not_found", "outside_tunisia"}

\* request bodies and geocoding outcomes that reach every return of the handler
DeclarePropertyInputs ==
    {[data |-> d, geo |-> "located"] : d \in PropertyRequests}
    \cup {[data |-> [RequestWithoutPrice EXCEPT !.commune_id = c], geo |-> "located"] :
             c \in {None, Some(9)}}
    \cup {[data |-> RequestWithoutPrice, geo |-> g] : g \in GeoOutcomes}

declare_property_outcome(user_id, data, geo, db, today, store) ==
    IF data.commune_id = None
    THEN [db |-> db, result |-> NoResult,
          response |-> [status |-> 400, error |-> "Commune required"]]
    ELSE IF TheValue(data.commune_id) \notin Communes
    THEN [db |-> db, result |-> NoResult,
          response |-> [status |-> 404, error |-> "Commune not found"]]
    ELSE IF geo = "not_found"
    THEN [db |-> db, result |-> NoResult,
          response |-> [status |-> 400, error |-> "Address not found via Nominatim"]]
    ELSE IF geo = "outside_tunisia"
    THEN [db |-> db, result |-> NoResult,
          response |-> [status |-> 400, error |-> "Coordinates outside Tunisia bounds"]]
    ELSE
      LET property_obj ==
              [id |-> NextId(db.properties), owner_id |-> user_id,
               commune_id |-> data.commune_id,
               street_address |-> data.street_address,
               delegation |-> None,
               surface_couverte |-> data.surface_couverte,
               reference_price_per_m2 |-> data.reference_price_per_m2,
               is_exempt |-> data.is_exempt,
               exemption_reason |-> data.exemption_reason]
          flushed1 == [NoPending EXCEPT !.properties = {property_obj}]
      IN  IF \E q \in db.properties :
                /\ q.owner_id = user_id
                /\ q.street_address = data.street_address
                /\ q.commune_id = data.commune_id
          THEN [db |-> session_rollback(db, flushed1), result |-> NoResult,
                response |-> [status |-> 409, error |-> "Property already exists"]]
          ELSE
            LET declaration ==
                    [id |-> NextId(db.declarations), owner_id |-> user_id,
                     declaration_type |-> "property",
                     reference_id |-> property_obj.id, status |-> "submitted"]
                flushed2 == [flushed1 EXCEPT !.declarations = {declaration}]
                calc_result == calculate_tib(property_obj, store)
            IN  IF "error" \in DOMAIN calc_result
                THEN [db |-> session_rollback(db, flushed2), result |-> calc_result,
                      response |-> [status |-> 400, error |-> calc_result.error]]
                ELSE
                  LET tax == Tax(NextTaxId(db), Some(property_obj.id), None, "TIB",
                                 today[1], calc_result.base_amount,
                                 calc_result.rate_percent, calc_result.tax_amount,
                                 calc_result.total_amount)
                      added == [flushed2 EXCEPT !.taxes = (tax.id :> tax)]
                  IN  [db |-> session_commit(db, added), result |-> calc_result,
                       response |-> [status |-> 201, property_id |-> property_obj.id,
                                     tax_id |-> tax.id]]

\* the history of penalty refreshes follows the tax rows
TrackNewTaxes(newTaxes) ==
    lastRead' = [id \in DOMAIN newTaxes |->
                    IF id \in DOMAIN lastRead THEN lastRead[id] ELSE None]

declare_property ==
    /\ call = NoCall
    /\ \E user_id \in Users, input \in DeclarePropertyInputs :
          \E out \in {declare_property_outcome(user_id, input.data, input.geo,
                                               Database, now, services)} :
              /\ call' = [fn |-> "declare_property", user_id |-> user_id,
                          data |-> input.data, geo |-> input.geo]
              /\ result' = out.result
              /\ response' = out.response
              /\ properties' = out.db.properties
              /\ lands' = out.db.lands
              /\ declarations' = out.db.declarations
              /\ taxes' = out.db.taxes
              /\ TrackNewTaxes(out.db.taxes)
              /\ session' = [assigned |-> DOMAIN out.db.taxes \ DOMAIN taxes,
                             committed |-> out.response.status = 201]
              /\ cfgCache' = IF UsesConfig(out.result)
                             THEN config_loaded(cfgCache) ELSE cfgCache
    /\ UNCHANGED <<now, services, readers, payments, permits, penaltySeen>>

(***************************************************************************)
(* declare_land (resources/ttnb.py)                                        *)
(***************************************************************************)
LandRequests ==
    [commune_id : {Some(1)},
     street_address : {"lot 7 route de Sousse"},
     surface : {<<5000, 1>>},
     urban_zone : {None, Some("faible_densite"), Some("Faible_Densite")},
     is_exempt : BOOLEAN,
     exemption_reason : {None}]

PlainLandRequest == CHOOSE d \in LandRequests :
                       d.urban_zone = Some("faible_densite") /\ ~d.is_exempt

DeclareLandInputs ==
    {[data |-> d, geo |-> "located"] : d \in LandRequests}
    \cup {[data |-> [PlainLandRequest EXCEPT !.surface = <<0, 1>>], geo |-> "located"]}
    \cup {[data |-> [PlainLandRequest EXCEPT !.commune_id = c], geo |-> "located"] :
             c \in {None, Some(9)}}
    \cup {[data |-> PlainLandRequest, geo |-> g] : g \in GeoOutcomes}

declare_land_outcome(user_id, data, geo, db, today) ==
    IF data.urban_zone = None \/ data.urban_zone = Some("")
    THEN [db |-> db, result |-> NoResult,
          response |-> [status |-> 400, error |-> "Urban zone required"]]
    ELSE IF TheValue(data.urban_zone) \notin {VALID_ZONES[i] : i \in DOMAIN VALID_ZONES}
    THEN [db |-> db, result |-> NoResult,
          response |-> [status |-> 400, error |-> "Invalid urban zone"]]
    ELSE IF data.commune_id = None
    THEN [db |-> db, result |-> NoResult,
          response |-> [status |-> 400, error |-> "Commune required"]]
    ELSE IF TheValue(data.commune_id) \notin Communes
    THEN [db |-> db, result |-> NoResult,
          response |-> [status |-> 404, error |-> "Commune not found"]]
    ELSE IF geo = "not_found"
    THEN [db |-> db, result |-> NoResult,
          response |-> [status |-> 400, error |-> "Address not found via Nominatim"]]
    ELSE IF geo = "outside_tunisia"
    THEN [db |-> db, result |-> NoResult,
          response |-> [status |-> 400, error |-> "Coordinates outside Tunisia bounds"]]
    ELSE
      LET land_obj ==
              [id |-> NextId(db.lands), owner_id |-> user_id,
               commune_id |-> data.commune_id,
               street_address |-> data.street_address,
               surface |-> data.surface,
               urban_zone |-> data.urban_zone,
               is_exempt |-> data.is_exempt,
               exemption_reason |-> data.exemption_reason]
          flushed1 == [NoPending EXCEPT !.lands = {land_obj}]
      IN  IF \E q \in db.lands :
                /\ q.owner_id = user_id
                /\ q.street_address = data.street_address
                /\ q.commune_id = data.commune_id
          THEN [db |-> session_rollback(db, flushed1), result |-> NoResult,
                response |-> [status |-> 409, error |-> "Land already exists"]]
          ELSE
            LET declaration ==
                    [id |-> NextId(db.declarations), owner_id |-> user_id,
                     declaration_type |-> "land",
                     reference_id |-> land_obj.id, status |-> "submitted"]
                flushed2 == [flushed1 EXCEPT !.declarations = {declaration}]
                calc_result == calculate_ttnb(land_obj)
            IN  IF "error" \in DOMAIN calc_result
                THEN [db |-> session_rollback(db, flushed2), result |-> calc_result,
                      response |-> [status |-> 400, error |-> calc_result.error]]
                ELSE
                  LET tax == Tax(NextTaxId(db), None, Some(land_obj.id), "TTNB",
                                 today[1], land_obj.surface,
                                 IF "tariff_per_m2" \in DOMAIN calc_result
                                 THEN Some(calc_result.tariff_per_m2) ELSE None,
                                 calc_result.tax_amount, calc_result.total_amount)
                      added == [flushed2 EXCEPT !.taxes = (tax.id :> tax)]
                  IN  IF tax.rate_percent = None
                      \* taxes.rate_percent is NOT NULL: the commit raises and
                      \* the request ends with the session discarded
                      THEN [db |-> session_rollback(db, added), result |-> calc_result,
                            response |-> [status |-> 500, error |-> "IntegrityError"]]
                      ELSE [db |-> session_commit(db, added), result |-> calc_result,
                            response |-> [status |-> 201, land_id |-> land_obj.id,
                                          tax_id |-> tax.id]]

declare_land ==
    /\ call = NoCall
    /\ \E user_id \in Users, input \in DeclareLandInputs :
          \E out \in {declare_land_outcome(user_id, input.data, input.geo, Database, now)} :
              /\ call' = [fn |-> "declare_land", user_id |-> user_id,
                          data |-> input.data, geo |-> input.geo]
              /\ result' = out.result
              /\ response' = out.response
              /\ properties' = out.db.properties
              /\ lands' = out.db.lands
              /\ declarations' = out.db.declarations
              /\ taxes' = out.db.taxes
              /\ TrackNewTaxes(out.db.taxes)
              /\ session' = [assigned |-> DOMAIN out.db.taxes \ DOMAIN taxes,
                             committed |-> out.response.status = 201]
              /\ cfgCache' = IF UsesConfig(out.result)
                             THEN config_loaded(cfgCache) ELSE cfgCache
    /\ UNCHANGED <<now, services, readers, payments, permits, penaltySeen>>

(***************************************************************************)
(* Recompute-on-read of the late payment penalty                           *)
(***************************************************************************)
\* money stored in a Tax row (millimes) as the float handed to the calculator
Money(millimes) == Frac(millimes, 1000)

\* variant: the stored values are rewritten on every read
penalty_changed_always(tax, new_penalty) == TRUE

\* (tax.penalty_amount or 0.0) != new_penalty
\*    or (tax.total_amount or 0.0) != (tax.tax_amount + new_penalty)
penalty_changed(tax, new_penalty) ==
    \/ tax.penalty_amount # new_penalty
    \/ tax.total_amount # tax.tax_amount + new_penalty

\* variant: the newly computed penalty is added to what is already stored
refresh_penalty_accumulate(tax, section, today) ==
    LET new_penalty == compute_late_payment_penalty_for_year(
                           Money(tax.tax_amount), tax.tax_year, section, today)
    IN  IF penalty_changed(tax, new_penalty)
        THEN [tax EXCEPT !.penalty_amount = tax.penalty_amount + new_penalty,
                         !.total_amount = tax.total_amount + new_penalty]
        ELSE tax

\* the block every read endpoint runs on a tax that is not PAID
refresh_penalty(tax, section, today) ==
    LET new_penalty == compute_late_payment_penalty_for_year(
                           Money(tax.tax_amount), tax.tax_year, section, today)
    IN  IF penalty_changed(tax, new_penalty)
        THEN [tax EXCEPT !.penalty_amount = new_penalty,
                         !.total_amount = tax.tax_amount + new_penalty]
        ELSE tax

\* section = 'TIB' if tax.tax_type.name == 'TIB' else 'TTNB'
SectionOf(tax) == IF tax.tax_type = "TIB" THEN "TIB" ELSE "TTNB"

\* Tax.query.filter_by(...).first(): the matching row of lowest id, if any
FirstTax(ids) == IF ids = {} THEN {} ELSE {CHOOSE i \in ids : \A j \in ids : i <= j}

TaxesOfProperty(property_id) ==
    {i \in DOMAIN taxes : taxes[i].property_id = Some(property_id) /\ taxes[i].tax_type = "TIB"}

TaxesOfLand(land_id) ==
    {i \in DOMAIN taxes : taxes[i].land_id = Some(land_id) /\ taxes[i].tax_type = "TTNB"}

\* Tax.property.has(owner_id=user_id) | Tax.land.has(owner_id=user_id)
TaxesOfUser(user_id) ==
    {i \in DOMAIN taxes :
        \/ \E q \in properties : taxes[i].property_id = Some(q.id) /\ q.owner_id = user_id
        \/ \E l \in lands : taxes[i].land_id = Some(l.id) /\ l.owner_id = user_id}

\* the rows the refresh loop assigns to: any_updates is true when there is one
AssignedByRefresh(ids, fixedSection) ==
    {i \in ids :
        /\ taxes[i].status # PAID
        /\ LET section == IF fixedSection = None THEN SectionOf(taxes[i])
                          ELSE TheValue(fixedSection)
           IN  penalty_changed(taxes[i],
                   compute_late_payment_penalty_for_year(
                       Money(taxes[i].tax_amount), taxes[i].tax_year, section, now))}

\* the loop "for t in taxes: if t.status != PAID: <refresh>" and the commit
RefreshTaxes(ids, fixedSection) ==
    /\ session' = [assigned |-> AssignedByRefresh(ids, fixedSection),
                   committed |-> AssignedByRefresh(ids, fixedSection) # {}]
    /\ cfgCache' = IF \E i \in ids : /\ taxes[i].status # PAID
                                     /\ PenaltyUsesConfig(taxes[i].tax_year, now)
                   THEN config_loaded(cfgCache) ELSE cfgCache
    /\ taxes' = [i \in DOMAIN taxes |->
                   IF i \in ids /\ taxes[i].status # PAID
                   THEN refresh_penalty(taxes[i],
                                        IF fixedSection = None THEN SectionOf(taxes[i])
                                        ELSE TheValue(fixedSection), now)
                   ELSE taxes[i]]
    /\ lastRead' = [i \in DOMAIN lastRead |->
                      IF i \in ids /\ taxes[i].status # PAID
                      THEN Some([at |-> now,
                                 replaced |-> /\ taxes[i].penalty_amount > 0
                                              /\ taxes'[i].penalty_amount
                                                    # taxes[i].penalty_amount])
                      ELSE lastRead[i]]

ReadFrame == UNCHANGED <<result, now, services, properties, lands, declarations, readers, payments, permits, penaltySeen>>

get_properties ==
    /\ call = NoCall
    /\ \E user_id \in Users :
          /\ call' = [fn |-> "get_properties", user_id |-> user_id]
          /\ RefreshTaxes(UNION {FirstTax(TaxesOfProperty(q.id)) :
                                    q \in {x \in properties : x.owner_id = user_id}},
                          Some("TIB"))
          /\ response' = [status |-> 200]
    /\ ReadFrame

get_property ==
    /\ call = NoCall
    /\ \E user_id \in Users, property_id \in 1..2 :
          /\ call' = [fn |-> "get_property", user_id |-> user_id, id |-> property_id]
          /\ IF \E q \in properties : q.id = property_id
             THEN /\ RefreshTaxes(FirstTax(TaxesOfProperty(property_id)), Some("TIB"))
                  /\ response' = [status |-> 200]
             ELSE /\ UNCHANGED <<taxes, lastRead, cfgCache>>
                  /\ session' = NoSession
                  /\ response' = [status |-> 404, error |-> "Resource not found"]
    /\ ReadFrame

\* GET /properties/<id>/taxes: every TIB tax of the property
get_property_taxes ==
    /\ call = NoCall
    /\ \E property_id \in 1..2 :
          /\ call' = [fn |-> "get_property_taxes", id |-> property_id]
          /\ IF \E q \in properties : q.id = property_id
             THEN /\ RefreshTaxes(TaxesOfProperty(property_id), Some("TIB"))
                  /\ response' = [status |-> 200]
             ELSE /\ UNCHANGED <<taxes, lastRead, cfgCache>>
                  /\ session' = NoSession
                  /\ response' = [status |-> 404, error |-> "Resource not found"]
    /\ ReadFrame

\* GET /lands/<id>/taxes: every TTNB tax of the land
get_land_taxes ==
    /\ call = NoCall
    /\ \E land_id \in 1..2 :
          /\ call' = [fn |-> "get_land_taxes", id |-> land_id]
          /\ IF \E l \in lands : l.id = land_id
             THEN /\ RefreshTaxes(TaxesOfLand(land_id), Some("TTNB"))
                  /\ response' = [status |-> 200]
             ELSE /\ UNCHANGED <<taxes, lastRead, cfgCache>>
                  /\ session' = NoSession
                  /\ response' = [status |-> 404, error |-> "Resource not found"]
    /\ ReadFrame

get_my_taxes ==
    /\ call = NoCall
    /\ \E user_id \in Users :
          /\ call' = [fn |-> "get_my_taxes", user_id |-> user_id]
          /\ RefreshTaxes(UNION {TaxesOfProperty(q.id) :
                                    q \in {x \in properties : x.owner_id = user_id}},
                          Some("TIB"))
          /\ response' = [status |-> 200]
    /\ ReadFrame

get_lands ==
    /\ call = NoCall
    /\ \E user_id \in Users :
          /\ call' = [fn |-> "get_lands", user_id |-> user_id]
          /\ RefreshTaxes(UNION {FirstTax(TaxesOfLand(l.id)) :
                                    l \in {x \in lands : x.owner_id = user_id}},
                          Some("TTNB"))
          /\ response' = [status |-> 200]
    /\ ReadFrame

get_land ==
    /\ call = NoCall
    /\ \E user_id \in Users, land_id \in 1..2 :
          /\ call' = [fn |-> "get_land", user_id |-> user_id, id |-> land_id]
          /\ IF \E l \in lands : l.id = land_id
             THEN /\ RefreshTaxes(FirstTax(TaxesOfLand(land_id)), Some("TTNB"))
                  /\ response' = [status |-> 200]
             ELSE /\ UNCHANGED <<taxes, lastRead, cfgCache>>
                  /\ session' = NoSession
                  /\ response' = [status |-> 404, error |-> "Resource not found"]
    /\ ReadFrame

check_permit_eligibility ==
    /\ call = NoCall
    /\ \E user_id \in Users :
          /\ call' = [fn |-> "check_permit_eligibility", user_id |-> user_id]
          /\ RefreshTaxes(TaxesOfUser(user_id), None)
          /\ response' = [status |-> 200,
                          eligible_for_permit |->
                              \A i \in TaxesOfUser(user_id) : taxes[i].status = PAID]
    /\ ReadFrame

delinquency_report ==
    /\ call = NoCall
    /\ call' = [fn |-> "delinquency_report"]
    /\ RefreshTaxes({i \in DOMAIN taxes : taxes[i].status # PAID}, None)
    /\ response' = [status |-> 200]
    /\ ReadFrame

(***************************************************************************)
(* The clock and the requests' life cycle                                  *)
(***************************************************************************)
\* the instants at which the model lets requests arrive
ClockTicks == {<<y, m[1], m[2]>> : y \in MinYear..MaxYear,
                                    m \in {<<1, 1>>, <<6, 15>>, <<12, 28>>}}

AdvanceClock ==
    /\ call = NoCall
    /\ \E d \in ClockTicks : DateLt(now, d) /\ now' = d
    /\ UNCHANGED <<call, result, services, dbVars, response, lastRead, readers, payments, permits, session, cfgCache, penaltySeen>>

\* the answer leaves the server
Respond ==
    /\ call # NoCall
    /\ call' = NoCall
    /\ result' = NoResult
    /\ response' = NoResponse
    /\ session' = NoSession
    /\ UNCHANGED <<now, services, dbVars, lastRead, readers, payments, permits, cfgCache, penaltySeen>>

Init ==
    /\ call = NoCall
    /\ result = NoResult
    /\ services = ServiceStore(3, 0)
    /\ SysIdle

Next ==
    \/ declare_property
    \/ declare_land
    \/ get_properties
    \/ get_property
    \/ get_property_taxes
    \/ get_land_taxes
    \/ get_my_taxes
    \/ get_lands
    \/ get_land
    \/ check_permit_eligibility
    \/ delinquency_report
    \/ AdvanceClock
    \/ Respond

Spec == Init /\ [][Next]_vars

(***************************************************************************)
(* Renewal, payment and amendment (resources/renewal.py, payment.py,       *)
(* amendments.py)                                                          *)
(***************************************************************************)
MaxTaxes == 2

\* variant: the table has no unique constraint on (asset, tax_year)
violates_unique_off(rows, tax) == FALSE

\* unique_property_tax_per_year and unique_land_tax_per_year
violates_unique(rows, tax) ==
    \E i \in DOMAIN rows :
        /\ rows[i].tax_year = tax.tax_year
        /\ \/ tax.property_id # None /\ rows[i].property_id = tax.property_id
           \/ tax.land_id # None /\ rows[i].land_id = tax.land_id

\* variant: the check looks for a record of the current year
renewal_year_current(today) == today[1]

\* new_year = datetime.now().year + 1
renewal_year(today) == today[1] + 1

\* Tax.query.filter_by(<asset>_id=..., tax_type=..., tax_year=new_year).first()
existing_tax(rows, kind, asset_id, new_year) ==
    {i \in DOMAIN rows :
        /\ rows[i].tax_year = new_year
        /\ IF kind = "TIB"
           THEN rows[i].property_id = Some(asset_id) /\ rows[i].tax_type = "TIB"
           ELSE rows[i].land_id = Some(asset_id) /\ rows[i].tax_type = "TTNB"}

\* Tax(...) built from calc_result, db.session.add, db.session.commit
insert_renewed_tax(db, kind, asset_id, new_year, calc_result) ==
    IF "base_amount" \notin DOMAIN calc_result
    THEN [db |-> db, result |-> calc_result,
          response |-> [status |-> 500, error |-> "KeyError"]]
    ELSE
      LET tax == IF kind = "TIB"
                 THEN Tax(NextTaxId(db), Some(asset_id), None, "TIB", new_year,
                          calc_result.base_amount, calc_result.rate_percent,
                          calc_result.tax_amount, calc_result.total_amount)
                 ELSE Tax(NextTaxId(db), None, Some(asset_id), "TTNB", new_year,
                          Money(calc_result.base_amount),
                          Some(Frac(calc_result.rate_percent, 1)),
                          calc_result.tax_amount, calc_result.total_amount)
          added == [NoPending EXCEPT !.taxes = (tax.id :> tax)]
      IN  IF violates_unique(db.taxes, tax)
          THEN [db |-> session_rollback(db, added), result |-> calc_result,
                response |-> [status |-> 500, error |-> "IntegrityError"]]
          ELSE [db |-> session_commit(db, added), result |-> calc_result,
                response |-> [status |-> 201, tax_id |-> tax.id,
                              new_tax_year |-> new_year]]

renew_property_outcome(user_id, property_id, db, today, store) ==
    IF ~\E q \in db.properties : q.id = property_id
    THEN [db |-> db, result |-> NoResult, response |-> [status |-> 404, error |-> "Resource not found"]]
    ELSE
      LET prop == CHOOSE q \in db.properties : q.id = property_id
          new_year == renewal_year(today)
      IN  IF prop.owner_id # user_id
          THEN [db |-> db, result |-> NoResult, response |-> [status |-> 403, error |-> "Access denied"]]
          ELSE IF existing_tax(db.taxes, "TIB", property_id, new_year) # {}
          THEN [db |-> db, result |-> NoResult,
                response |-> [status |-> 400,
                              error |-> "Property tax already renewed for next year"]]
          ELSE insert_renewed_tax(db, "TIB", property_id, new_year,
                                  calculate_tib(prop, store))

renew_land_outcome(user_id, land_id, db, today) ==
    IF ~\E l \in db.lands : l.id = land_id
    THEN [db |-> db, result |-> NoResult, response |-> [status |-> 404, error |-> "Resource not found"]]
    ELSE
      LET land == CHOOSE l \in db.lands : l.id = land_id
          new_year == renewal_year(today)
          calc_result == calculate_ttnb(land)
      IN  IF land.owner_id # user_id
          THEN [db |-> db, result |-> NoResult, response |-> [status |-> 403, error |-> "Access denied"]]
          ELSE IF existing_tax(db.taxes, "TTNB", land_id, new_year) # {}
          THEN [db |-> db, result |-> NoResult,
                response |-> [status |-> 400,
                              error |-> "Land tax already renewed for next year"]]
          ELSE IF "error" \in DOMAIN calc_result
          THEN [db |-> db, result |-> calc_result,
                response |-> [status |-> 400, error |-> calc_result.error]]
          ELSE insert_renewed_tax(db, "TTNB", land_id, new_year, calc_result)

\* what a handler's outcome leaves in the database and in the session
ApplyOutcome(out) ==
    /\ result' = out.result
    /\ response' = out.response
    /\ properties' = out.db.properties
    /\ lands' = out.db.lands
    /\ declarations' = out.db.declarations
    /\ taxes' = out.db.taxes
    /\ TrackNewTaxes(out.db.taxes)
    /\ session' = [assigned |-> {i \in DOMAIN out.db.taxes :
                                    i \notin DOMAIN taxes \/ out.db.taxes[i] # taxes[i]},
                   committed |-> out.response.status \in {200, 201}]
    /\ cfgCache' = IF UsesConfig(out.result) THEN config_loaded(cfgCache) ELSE cfgCache

renew_property_tax ==
    /\ call = NoCall
    /\ \E user_id \in Users, property_id \in 1..2 :
          \E out \in {renew_property_outcome(user_id, property_id, Database, now, services)} :
              /\ out.response.status = 201 => Cardinality(DOMAIN taxes) < MaxTaxes
              /\ call' = [fn |-> "renew_property_tax", user_id |-> user_id,
                          id |-> property_id]
              /\ ApplyOutcome(out)
    /\ UNCHANGED <<now, services, readers, payments, permits, penaltySeen>>

renew_land_tax ==
    /\ call = NoCall
    /\ \E user_id \in Users, land_id \in 1..2 :
          \E out \in {renew_land_outcome(user_id, land_id, Database, now)} :
              /\ out.response.status = 201 => Cardinality(DOMAIN taxes) < MaxTaxes
              /\ call' = [fn |-> "renew_land_tax", user_id |-> user_id, id |-> land_id]
              /\ ApplyOutcome(out)
    /\ UNCHANGED <<now, services, readers, payments, permits, penaltySeen>>

\* variant: payments open with the tax year itself
payable_from_same_year(tax_year) == <<tax_year, 1, 1>>

\* start_date = date(int(tax.tax_year) + 1, 1, 1)
payable_from(tax_year) == <<tax_year + 1, 1, 1>>

\* the owner of the asset a tax row points to, None when there is none
TaxOwner(db, tax) ==
    {q.owner_id : q \in {x \in db.properties : tax.property_id = Some(x.id)}}
    \cup {l.owner_id : l \in {x \in db.lands : tax.land_id = Some(x.id)}}

make_payment_outcome(user_id, data, db, pays, today) ==
    IF data.tax_id \notin DOMAIN db.taxes
    THEN [taxes |-> db.taxes, payments |-> pays,
          response |-> [status |-> 404, error |-> "Resource not found"]]
    ELSE
      LET tax == db.taxes[data.tax_id]
      IN  IF \E o \in TaxOwner(db, tax) : o # user_id
          THEN [taxes |-> db.taxes, payments |-> pays,
                response |-> [status |-> 403, error |-> "Access denied"]]
          ELSE IF tax.status = PAID
          THEN [taxes |-> db.taxes, payments |-> pays,
                response |-> [status |-> 400, error |-> "Tax already paid"]]
          ELSE IF DateLt(today, payable_from(tax.tax_year))
          THEN [taxes |-> db.taxes, payments |-> pays,
                response |-> [status |-> 400, error |-> "Payments not open yet",
                              payable_from |-> payable_from(tax.tax_year)]]
          ELSE
            LET payment == [id |-> NextId(pays), user_id |-> user_id,
                            tax_id |-> tax.id, amount |-> data.amount,
                            status |-> "completed"]
            IN  [taxes |-> [db.taxes EXCEPT ![tax.id].status = PAID],
                 payments |-> pays \cup {payment},
                 response |-> [status |-> 201, payment_id |-> payment.id,
                               amount |-> payment.amount]]

make_payment ==
    /\ call = NoCall
    /\ \E user_id \in Users, tax_id \in 1..MaxTaxes :
          LET amount == 1000
              data == [tax_id |-> tax_id, amount |-> amount]
              out == make_payment_outcome(user_id, data, Database, payments, now)
          IN  /\ call' = [fn |-> "make_payment", user_id |-> user_id, data |-> data]
              /\ taxes' = out.taxes
              /\ payments' = out.payments
              /\ response' = out.response
              /\ session' = [assigned |-> {i \in DOMAIN taxes : out.taxes[i] # taxes[i]},
                             committed |-> out.response.status = 201]
    /\ UNCHANGED <<result, now, services, properties, lands, declarations, lastRead, permits,
                   readers, cfgCache, penaltySeen>>

\* tax.base_amount .. tax.total_amount = calc_result[...] on the asset's first tax
amend_tax(rows, ids, kind, calc_result) ==
    [i \in DOMAIN rows |->
        IF i \in ids
        THEN [rows[i] EXCEPT
                 !.base_amount = IF kind = "TIB" THEN calc_result.base_amount
                                 ELSE Money(calc_result.base_amount),
                 !.rate_percent = IF kind = "TIB" THEN calc_result.rate_percent
                                  ELSE Some(Frac(calc_result.rate_percent, 1)),
                 !.tax_amount = calc_result.tax_amount,
                 !.total_amount = calc_result.total_amount]
        ELSE rows[i]]

\* PATCH /amendments/lands/<id>; data holds the keys of the JSON body
update_land_outcome(user_id, land_id, data, db) ==
    IF ~\E l \in db.lands : l.id = land_id
    THEN [db |-> db, result |-> NoResult,
          response |-> [status |-> 404, error |-> "Resource not found"]]
    ELSE
      LET old == CHOOSE l \in db.lands : l.id = land_id
          land == IF "surface" \in DOMAIN data
                  THEN [old EXCEPT !.surface = data.surface] ELSE old
          ids == FirstTax({i \in DOMAIN db.taxes :
                              db.taxes[i].land_id = Some(land_id)
                              /\ db.taxes[i].tax_type = "TTNB"})
          calc_result == calculate_ttnb(land)
          saved == [db EXCEPT !.lands = (db.lands \ {old}) \cup {land}]
      IN  IF old.owner_id # user_id
          THEN [db |-> db, result |-> NoResult,
                response |-> [status |-> 403, error |-> "Access denied"]]
          ELSE IF "surface" \notin DOMAIN data \/ ids = {}
          THEN [db |-> saved, result |-> NoResult, response |-> [status |-> 200]]
          ELSE IF "base_amount" \notin DOMAIN calc_result
          THEN [db |-> session_rollback(db, NoPending), result |-> calc_result,
                response |-> [status |-> 500, error |-> "KeyError"]]
          ELSE [db |-> [saved EXCEPT !.taxes = amend_tax(db.taxes, ids, "TTNB", calc_result)],
                result |-> calc_result, response |-> [status |-> 200]]

LandAmendments ==
    {[surface |-> <<6000, 1>>], [surface |-> <<0, 1>>], [land_type |-> "agricultural"]}

update_land ==
    /\ call = NoCall
    /\ \E user_id \in Users, land_id \in 1..2, data \in LandAmendments :
          /\ call' = [fn |-> "update_land", user_id |-> user_id, id |-> land_id,
                      data |-> data]
          /\ ApplyOutcome(update_land_outcome(user_id, land_id, data, Database))
    /\ UNCHANGED <<now, services, readers, payments, permits, penaltySeen>>

\* PATCH /amendments/properties/<id>; data holds the keys of the JSON body
update_property_outcome(user_id, property_id, data, db, store) ==
    IF ~\E q \in db.properties : q.id = property_id
    THEN [db |-> db, result |-> NoResult,
          response |-> [status |-> 404, error |-> "Resource not found"]]
    ELSE
      LET old == CHOOSE q \in db.properties : q.id = property_id
          prop == IF "surface_couverte" \in DOMAIN data
                  THEN [old EXCEPT !.surface_couverte = data.surface_couverte] ELSE old
          ids == FirstTax({i \in DOMAIN db.taxes :
                              db.taxes[i].property_id = Some(property_id)
                              /\ db.taxes[i].tax_type = "TIB"})
          calc_result == calculate_tib(prop, store)
          saved == [db EXCEPT !.properties = (db.properties \ {old}) \cup {prop}]
      IN  IF old.owner_id # user_id
          THEN [db |-> db, result |-> NoResult,
                response |-> [status |-> 403, error |-> "Access denied"]]
          ELSE IF "surface_couverte" \notin DOMAIN data \/ ids = {}
          THEN [db |-> saved, result |-> NoResult, response |-> [status |-> 200]]
          ELSE IF "base_amount" \notin DOMAIN calc_result
          THEN [db |-> session_rollback(db, NoPending), result |-> calc_result,
                response |-> [status |-> 500, error |-> "KeyError"]]
          ELSE [db |-> [saved EXCEPT !.taxes = amend_tax(db.taxes, ids, "TIB", calc_result)],
                result |-> calc_result, response |-> [status |-> 200]]

PropertyAmendments == {[surface_couverte |-> <<180, 1>>], [street_address |-> "14 rue de Carthage"]}

\* PropertyAmendmentSchema declares no surface_couverte: whether a body with
\* that key reaches the handler depends on the unknown-field policy of the
\* installed marshmallow/webargs, so both outcomes are possible
update_property ==
    /\ call = NoCall
    /\ \E user_id \in Users, property_id \in 1..2, data \in PropertyAmendments,
          passes \in BOOLEAN :
          /\ call' = [fn |-> "update_property", user_id |-> user_id,
                      id |-> property_id, data |-> data]
          /\ IF "surface_couverte" \in DOMAIN data /\ ~passes
             THEN ApplyOutcome([db |-> Database, result |-> NoResult,
                                response |-> [status |-> 422, error |-> "Unknown field"]])
             ELSE ApplyOutcome(update_property_outcome(user_id, property_id, data,
                                                       Database, services))
    /\ UNCHANGED <<now, services, readers, payments, permits, penaltySeen>>

(***************************************************************************)
(* Two requests reading the same tax concurrently (get_property, get_land) *)
(***************************************************************************)
Readers == {"r1", "r2"}

IdleReader == [pc |-> "idle"]

\* variant: the UPDATE adds the change the request computed to the stored value
flush_update_increment(row, snap, obj) ==
    [row EXCEPT !.penalty_amount = @ + (obj.penalty_amount - snap.penalty_amount),
                !.total_amount = @ + (obj.total_amount - snap.total_amount)]

\* the UPDATE a commit emits: the attributes that differ from the loaded
\* values are overwritten with the values held by the session
flush_update(row, snap, obj) ==
    [row EXCEPT !.penalty_amount = IF obj.penalty_amount # snap.penalty_amount
                                   THEN obj.penalty_amount ELSE @,
                !.total_amount = IF obj.total_amount # snap.total_amount
                                 THEN obj.total_amount ELSE @]

EmptyDatabase == [properties |-> {}, lands |-> {}, declarations |-> {}, taxes |-> <<>>]

\* a database holding one declared property and one declared land
DeclaredDatabase ==
    LET d1 == declare_property_outcome(
                  1, CHOOSE d \in PropertyRequests :
                         d.reference_price_per_m2 # None /\ ~d.is_exempt,
                  "located", EmptyDatabase, <<MinYear, 1, 1>>, ServiceStore(3, 0)).db
    IN  declare_land_outcome(1, PlainLandRequest, "located", d1, <<MinYear, 1, 1>>).db

ConcInit ==
    /\ cfgCache = Some(_load_config)
    /\ call = NoCall
    /\ result = NoResult
    /\ response = NoResponse
    /\ services = ServiceStore(3, 0)
    /\ now = <<MinYear, 1, 1>>
    /\ properties = DeclaredDatabase.properties
    /\ lands = DeclaredDatabase.lands
    /\ declarations = DeclaredDatabase.declarations
    /\ taxes = DeclaredDatabase.taxes
    /\ lastRead = [i \in DOMAIN DeclaredDatabase.taxes |-> None]
    /\ readers = [r \in Readers |-> IdleReader]
    /\ payments = {}
    /\ permits = {}
    /\ session = NoSession
    /\ penaltySeen = None

\* a database holding one declared property, and one holding one declared land
DeclaredProperty ==
    declare_property_outcome(
        1, CHOOSE d \in PropertyRequests : d.reference_price_per_m2 # None /\ ~d.is_exempt,
        "located", EmptyDatabase, <<MinYear, 1, 1>>, ServiceStore(3, 0)).db

DeclaredLand ==
    declare_land_outcome(1, PlainLandRequest, "located", EmptyDatabase, <<MinYear, 1, 1>>).db

\* one asset has been declared on the first day
LifeInit ==
    /\ cfgCache = Some(_load_config)
    /\ call = NoCall
    /\ result = NoResult
    /\ response = NoResponse
    /\ services = ServiceStore(3, 0)
    /\ now = <<MinYear, 1, 1>>
    /\ \E db \in {DeclaredProperty, DeclaredLand} :
          /\ properties = db.properties
          /\ lands = db.lands
          /\ declarations = db.declarations
          /\ taxes = db.taxes
          /\ lastRead = [i \in DOMAIN db.taxes |-> None]
    /\ readers = [r \in Readers |-> IdleReader]
    /\ payments = {}
    /\ permits = {}
    /\ session = NoSession
    /\ penaltySeen = None

LifeNext ==
    \/ renew_property_tax
    \/ renew_land_tax
    \/ make_payment
    \/ update_property
    \/ update_land
    \/ check_permit_eligibility
    \/ AdvanceClock
    \/ Respond

SpecLife == LifeInit /\ [][LifeNext]_vars

(***************************************************************************)
(* Renewal requests running concurrently with each other and with          *)
(* declarations: the check for an existing record (renewal.py 44-51) and   *)
(* the commit of the new record (67-68) are separate database round trips  *)
(***************************************************************************)
MaxRows == 3

RenewFrame == UNCHANGED <<call, result, response, services, payments, permits, session, penaltySeen>>

\* the handler up to calculate_tib / calculate_ttnb, on the rows it sees
RenewCheck(r) ==
    /\ readers[r].pc = "idle"
    /\ \E user_id \in Users, kind \in {"TIB", "TTNB"}, asset_id \in {1} :
          LET out == IF kind = "TIB"
                     THEN renew_property_outcome(user_id, asset_id, Database, now, services)
                     ELSE renew_land_outcome(user_id, asset_id, Database, now)
              req == [kind |-> kind, asset_id |-> asset_id,
                      new_year |-> renewal_year(now)]
          IN  /\ readers' = [readers EXCEPT ![r] =
                               IF out.response.status = 201
                               THEN [pc |-> "checked", req |-> req,
                                     calc_result |-> out.result]
                               ELSE [pc |-> "done", req |-> req,
                                     response |-> out.response]]
              /\ cfgCache' = IF UsesConfig(out.result)
                             THEN config_loaded(cfgCache) ELSE cfgCache
    /\ UNCHANGED <<now, dbVars, lastRead>>
    /\ RenewFrame

\* db.session.add(tax); db.session.commit() on the rows present by then
RenewInsert(r) ==
    /\ readers[r].pc = "checked"
    /\ LET rd == readers[r]
           out == insert_renewed_tax(Database, rd.req.kind, rd.req.asset_id,
                                     rd.req.new_year, rd.calc_result)
       IN  /\ out.response.status = 201 => Cardinality(DOMAIN taxes) < MaxRows
           /\ taxes' = out.db.taxes
           /\ TrackNewTaxes(out.db.taxes)
           /\ readers' = [readers EXCEPT ![r] =
                            [pc |-> "done", req |-> rd.req, response |-> out.response]]
    /\ UNCHANGED <<now, properties, lands, declarations, cfgCache>>
    /\ RenewFrame

\* the response is sent and the request ends
RenewFinish(r) ==
    /\ readers[r].pc = "done"
    /\ readers' = [readers EXCEPT ![r] = IdleReader]
    /\ UNCHANGED <<now, dbVars, lastRead, cfgCache>>
    /\ RenewFrame

\* the calendar year changes
NewYear ==
    /\ now[1] < MaxYear
    /\ now' = <<now[1] + 1, 1, 1>>
    /\ UNCHANGED <<dbVars, lastRead, readers, cfgCache>>
    /\ RenewFrame

RenewInit ==
    /\ call = NoCall
    /\ result = NoResult
    /\ response = NoResponse
    /\ services = ServiceStore(3, 0)
    /\ now = <<MinYear, 1, 1>>
    /\ properties = {}
    /\ lands = {}
    /\ declarations = {}
    /\ taxes = <<>>
    /\ lastRead = <<>>
    /\ readers = [r \in Readers |-> IdleReader]
    /\ payments = {}
    /\ permits = {}
    /\ session = NoSession
    /\ cfgCache = None
    /\ penaltySeen = None

\* a declaration request served while renewals are in progress: the rows it
\* commits become visible to them at once
RenewDeclareProperty ==
    /\ \E user_id \in Users :
          \E out \in {declare_property_outcome(
                           user_id,
                           CHOOSE d \in PropertyRequests :
                               d.reference_price_per_m2 # None /\ ~d.is_exempt,
                           "located", Database, now, services)} :
              /\ out.response.status = 201
              /\ properties' = out.db.properties
              /\ lands' = out.db.lands
              /\ declarations' = out.db.declarations
              /\ taxes' = out.db.taxes
              /\ TrackNewTaxes(out.db.taxes)
              /\ cfgCache' = config_loaded(cfgCache)
    /\ UNCHANGED <<now, readers>>
    /\ RenewFrame

RenewDeclareLand ==
    /\ \E user_id \in Users :
          \E out \in {declare_land_outcome(user_id, PlainLandRequest, "located",
                                           Database, now)} :
              /\ out.response.status = 201
              /\ properties' = out.db.properties
              /\ lands' = out.db.lands
              /\ declarations' = out.db.declarations
              /\ taxes' = out.db.taxes
              /\ TrackNewTaxes(out.db.taxes)
              /\ cfgCache' = config_loaded(cfgCache)
    /\ UNCHANGED <<now, readers>>
    /\ RenewFrame

RenewNext ==
    \/ RenewDeclareProperty
    \/ RenewDeclareLand
    \/ \E r \in Readers : RenewCheck(r)
    \/ \E r \in Readers : RenewInsert(r)
    \/ \E r \in Readers : RenewFinish(r)
    \/ NewYear

SpecRenew == RenewInit /\ [][RenewNext]_vars

(***************************************************************************)
(* The exemption matcher and the calculators under a configuration file    *)
(* that declares exemption rules (resources/tariffs_2025.yaml)             *)
(***************************************************************************)
RulePool ==
    {[name |-> "agricultural use",
      conditions |-> [affectation_in |-> <<"AGRICOLE", "culte">>]],
     [name |-> "farm land",
      conditions |-> [land_type_in |-> <<"agricultural">>]],
     [name |-> "worship",
      conditions |-> [exemption_reason_in |-> <<"Lieu de Culte">>]],
     [name |-> "new building",
      conditions |-> [max_age_years |-> 5]],
     [name |-> "new dwelling",
      conditions |-> [affectation_in |-> <<"habitation">>, max_age_years |-> 5]],
     [name |-> "blanket"]}

MaxRules == 2

RuleLists == UNION {[1..n -> RulePool] : n \in 0..MaxRules}

\* yaml.safe_load(f) followed by the setdefault calls
yaml_config(tib_rules, ttnb_rules) ==
    [TIB |-> [rounding |-> [currency_decimals |-> currency_decimals],
              exemptions |-> tib_rules],
     TTNB |-> [rounding |-> [currency_decimals |-> currency_decimals],
               exemptions |-> ttnb_rules]]

ConfigFiles ==
    {yaml_config(t, l) : t \in RuleLists,
                         l \in {<<>>, <<CHOOSE r \in RulePool : r.name = "farm land">>}}

\* a dict holding the given keys; a key whose value is None is left out
Context(affectation, land_type, exemption_reason, construction_year) ==
    LET entry(key, opt) == IF opt = None THEN <<>> ELSE (key :> TheValue(opt))
    IN  entry("affectation", affectation) @@ entry("land_type", land_type)
        @@ entry("exemption_reason", exemption_reason)
        @@ entry("construction_year", construction_year)

Contexts ==
    {Context(a, l, e, y) :
        a \in {None, Some("Agricole"), Some("habitation")},
        l \in {None, Some("Agricultural")},
        e \in {None, Some("lieu de culte")},
        y \in {None, Some(MinYear - 4), Some(MinYear + 2)}}

MatchInit ==
    /\ call = NoCall
    /\ result = NoResult
    /\ services = ServiceStore(3, 0)
    /\ now \in {<<y, 1, 1>> : y \in MinYear..MaxYear}
    /\ properties = {}
    /\ lands = {}
    /\ declarations = {}
    /\ taxes = <<>>
    /\ response = NoResponse
    /\ lastRead = <<>>
    /\ readers = <<>>
    /\ payments = {}
    /\ permits = {}
    /\ session = NoSession
    /\ cfgCache \in {None} \cup {Some(c) : c \in ConfigFiles}
    /\ penaltySeen = None

CallMatch ==
    /\ call = NoCall
    /\ \E kind \in Sections, context \in Contexts :
          /\ call' = [fn |-> "_match_exemption", kind |-> kind, context |-> context]
          /\ result' = [rule |-> _match_exemption(kind, context)]
    /\ cfgCache' = config_loaded(cfgCache)
    /\ UNCHANGED <<now, services, dbVars, response, lastRead, readers, payments, permits,
                   session, penaltySeen>>

MatchNext ==
    \/ CallMatch
    \/ CallTib
    \/ CallTtnb
    \/ Return

SpecMatch == MatchInit /\ [][MatchNext]_vars

(***************************************************************************)
(* The calculators under configuration files that set currency_decimals    *)
(***************************************************************************)
\* yaml.safe_load(f) of a file that sets the rounding of both sections
yaml_rounding(tib_decimals, ttnb_decimals) ==
    [TIB |-> [rounding |-> [currency_decimals |-> tib_decimals], exemptions |-> <<>>],
     TTNB |-> [rounding |-> [currency_decimals |-> ttnb_decimals], exemptions |-> <<>>]]

RoundingFiles == {yaml_rounding(t, l) : t \in {0, 2, 3}, l \in {0, 2, 3}}

RoundInit ==
    /\ call = NoCall
    /\ result = NoResult
    /\ services = ServiceStore(3, 0)
    /\ now = <<MinYear, 1, 1>>
    /\ properties = {}
    /\ lands = {}
    /\ declarations = {}
    /\ taxes = <<>>
    /\ response = NoResponse
    /\ lastRead = <<>>
    /\ readers = <<>>
    /\ payments = {}
    /\ permits = {}
    /\ session = NoSession
    /\ cfgCache \in {None} \cup {Some(c) : c \in RoundingFiles}
    /\ penaltySeen = None

RoundNext == CallTib \/ CallTtnb \/ CallPenalty \/ Return

SpecRound == RoundInit /\ [][RoundNext]_vars

ConcFrame == UNCHANGED <<call, result, response, services, properties, lands,
                         declarations, lastRead, payments, permits, session, cfgCache,
                         penaltySeen>>

\* tax = Tax.query.filter_by(property_id=..., tax_type=TIB).first()
ReaderLoad(r) ==
    /\ readers[r].pc = "idle"
    /\ \E handler \in {"get_property", "get_land"} :
          LET found == IF handler = "get_property"
                       THEN FirstTax(TaxesOfProperty(1))
                       ELSE FirstTax(TaxesOfLand(1))
          IN  /\ found # {}
              /\ readers' = [readers EXCEPT ![r] =
                               [pc |-> "loaded", handler |-> handler,
                                tax_id |-> TheValue(found),
                                snap |-> taxes[TheValue(found)]]]
    /\ UNCHANGED <<now, taxes>>
    /\ ConcFrame

\* new_penalty = compute_late_payment_penalty_for_year(...); compare; assign
ReaderRecompute(r) ==
    /\ readers[r].pc = "loaded"
    /\ LET snap == readers[r].snap
           section == IF readers[r].handler = "get_property" THEN "TIB" ELSE "TTNB"
       IN  readers' = [readers EXCEPT ![r] =
                         [pc |-> "computed", handler |-> readers[r].handler,
                          tax_id |-> readers[r].tax_id, snap |-> snap,
                          today |-> now,
                          obj |-> IF snap.status # PAID
                                  THEN refresh_penalty(snap, section, now) ELSE snap]]
    /\ UNCHANGED <<now, taxes>>
    /\ ConcFrame

\* db.session.commit(), reached only when an attribute was assigned
ReaderCommit(r) ==
    /\ readers[r].pc = "computed"
    /\ LET rd == readers[r]
       IN  /\ taxes' = IF rd.obj # rd.snap
                       THEN [taxes EXCEPT ![rd.tax_id] = flush_update(@, rd.snap, rd.obj)]
                       ELSE taxes
           /\ readers' = [readers EXCEPT ![r] =
                            [pc |-> "done", handler |-> rd.handler,
                             tax_id |-> rd.tax_id, snap |-> rd.snap,
                             today |-> rd.today, obj |-> rd.obj]]
    /\ UNCHANGED now
    /\ ConcFrame

\* the response is sent and the request ends
ReaderFinish(r) ==
    /\ readers[r].pc = "done"
    /\ readers' = [readers EXCEPT ![r] = IdleReader]
    /\ UNCHANGED <<now, taxes>>
    /\ ConcFrame

Tick ==
    /\ \E d \in ClockTicks : DateLt(now, d) /\ now' = d
    /\ UNCHANGED <<taxes, readers>>
    /\ ConcFrame

ConcNext ==
    \/ \E r \in Readers : ReaderLoad(r)
    \/ \E r \in Readers : ReaderRecompute(r)
    \/ \E r \in Readers : ReaderCommit(r)
    \/ \E r \in Readers : ReaderFinish(r)
    \/ Tick

SpecConc == ConcInit /\ [][ConcNext]_vars

(***************************************************************************)
(* Properties of the calculators (checked under SpecCalc)                  *)
(***************************************************************************)
IsTibCall == call.fn = "calculate_tib"

IsTtnbCall == call.fn = "calculate_ttnb"

IsPenaltyCall == call.fn = "compute_late_payment_penalty_for_year"

FPositive(a) == a[1] > 0

HasPrice(obj) ==
    /\ obj.reference_price_per_m2 # None
    /\ FPositive(TheValue(obj.reference_price_per_m2))

\* C1: for a non-exempt property with reference price p > 0 and covered
\* surface s > 0, calculate_tib returns base_amount = round(0.02 * p * s),
\* tax_amount = round(0.02 * p * s * r) for the resolved rate r, and
\* total_amount = tax_amount (the rate is applied to the base, not added).
C1_TibFormula ==
    (/\ IsTibCall
     /\ ~call.obj.is_exempt
     /\ HasPrice(call.obj)
     /\ IsNumber(call.obj, "surface_couverte")
     /\ FPositive(call.obj.surface_couverte))
    => LET p == TheValue(call.obj.reference_price_per_m2)
           sf == call.obj.surface_couverte
           r == result.rate_percent
       IN  /\ result.base_amount
                = _round(Frac(2 * p[1] * sf[1], 100 * p[2] * sf[2]), "TIB")
           /\ result.tax_amount
                = _round(Frac(2 * p[1] * sf[1] * r, 100 * 100 * p[2] * sf[2]), "TIB")
           /\ result.total_amount = result.tax_amount

\* the worked example: s = 150, p = 200, 3 services: base 600.000, tax 60.000
C1_Witness ==
    /\ IsTibCall
    /\ ~call.obj.is_exempt
    /\ IsNumber(call.obj, "surface_couverte")
    /\ call.obj.surface_couverte = <<150, 1>>
    /\ call.obj.reference_price_per_m2 = Some(<<200, 1>>)
    /\ result.services_count = 3
    /\ result.base_amount = 600000
    /\ result.tax_amount = 60000
    /\ result.total_amount = 60000

StatutoryTariffMillimes(zone) ==
    CASE zone = "haute_densite" -> 1200
      [] zone = "densite_moyenne" -> 800
      [] zone = "faible_densite" -> 400
      [] zone = "peripherique" -> 200

FourZones == {"haute_densite", "densite_moyenne", "faible_densite", "peripherique"}

\* C2: for a non-exempt land with surface s > 0 in one of the four zones,
\* calculate_ttnb returns tax_amount = round(s * tariff) with the statutory
\* tariff of the zone, total_amount = tax_amount and rate_percent = 0,
\* whatever the service configuration is.
C2_TtnbFormula ==
    (/\ IsTtnbCall
     /\ ~call.obj.is_exempt
     /\ IsNumber(call.obj, "surface")
     /\ FPositive(call.obj.surface)
     /\ call.obj.urban_zone # None
     /\ TheValue(call.obj.urban_zone) \in FourZones)
    => LET sf == call.obj.surface
           t == StatutoryTariffMillimes(TheValue(call.obj.urban_zone))
       IN  /\ result.tax_amount = RoundHalfEven(sf[1] * t, sf[2])
           /\ result.total_amount = result.tax_amount
           /\ result.rate_percent = 0

\* the worked example: s = 5000 in faible_densite gives 2000.000
C2_Witness ==
    /\ IsTtnbCall
    /\ ~call.obj.is_exempt
    /\ IsNumber(call.obj, "surface")
    /\ call.obj.surface = <<5000, 1>>
    /\ call.obj.urban_zone = Some("faible_densite")
    /\ result.tax_amount = 2000000
    /\ result.total_amount = 2000000

\* C3: for a real tax year N the penalty is 0 when the date is before Jan 1
\* of N+2 and otherwise round(P * 0.0125 * m) with
\* m = 12 * (year - (N+2)) + (month - 1); the day of the month plays no role.
C3_PenaltyFormula ==
    (IsPenaltyCall /\ call.tax_year # 0)
    => LET P == call.tax_amount
           N == call.tax_year
           d == call.today
           m == 12 * (d[1] - (N + 2)) + (d[2] - 1)
       IN  IF d[1] < N + 2
           THEN result.amount = 0
           ELSE result.amount = RoundHalfEven(P[1] * m * 25, P[2] * 2)

\* the worked example: N = 2023, P = 100, 2025-06-15 gives 6.250
C3_Witness ==
    /\ IsPenaltyCall
    /\ call.tax_year = 2023
    /\ call.tax_amount = <<100, 1>>
    /\ call.today = <<2025, 6, 15>>
    /\ result.amount = 6250

\* C6: when is_exempt is true, calculate_tib and calculate_ttnb return
\* base_amount, rate_percent, tax_amount and total_amount all 0, echo the
\* exemption_reason and carry no error key, whatever the other inputs are.
C6_ExemptShortCircuit ==
    ((IsTibCall \/ IsTtnbCall) /\ call.obj.is_exempt)
    => /\ "error" \notin DOMAIN result
       /\ result.base_amount = 0
       /\ result.rate_percent = 0
       /\ result.tax_amount = 0
       /\ result.total_amount = 0
       /\ result.exemption_reason = call.obj.exemption_reason

\* an exempt property without reference price and with a negative surface
C6_Witness ==
    /\ IsTibCall
    /\ call.obj.is_exempt
    /\ call.obj.reference_price_per_m2 = None
    /\ IsNumber(call.obj, "surface_couverte")
    /\ ~FPositive(call.obj.surface_couverte)
    /\ call.obj.exemption_reason = Some("lieu de culte")
    /\ result.tax_amount = 0
    /\ result.exemption_reason = Some("lieu de culte")

ZoneErrorResult ==
    /\ "error" \in DOMAIN result
    /\ "tax_amount" \notin DOMAIN result
    /\ "valid_zones" \in DOMAIN result
    /\ result.valid_zones = VALID_ZONES

\* C8 as stated: a non-exempt land whose urban_zone is absent or is not
\* literally one of the four keys gets an error result listing the four
\* zones and no tax_amount.
C8_AsStated ==
    (/\ IsTtnbCall
     /\ ~call.obj.is_exempt
     /\ (call.obj.urban_zone = None \/ TheValue(call.obj.urban_zone) \notin FourZones))
    => ZoneErrorResult

\* C8: a non-exempt land whose urban_zone is absent, empty, or - once
\* lower-cased - not one of the four keys gets an error result listing the
\* four zones and no tax_amount; no default tariff is applied.
C8_InvalidZoneRejected ==
    (/\ IsTtnbCall
     /\ ~call.obj.is_exempt
     /\ (call.obj.urban_zone = None
           \/ lower(TheValue(call.obj.urban_zone)) \notin FourZones))
    => ZoneErrorResult

C8_Witness ==
    /\ IsTtnbCall
    /\ ~call.obj.is_exempt
    /\ call.obj.urban_zone = Some("unknown_zone")
    /\ IsNumber(call.obj, "surface")
    /\ FPositive(call.obj.surface)
    /\ ZoneErrorResult

\* C10: a non-exempt asset with surface <= 0 gets an error result without
\* tax_amount from calculate_tib and from calculate_ttnb.
C10_NonPositiveSurfaceRejected ==
    (/\ IsTibCall \/ IsTtnbCall
     /\ ~call.obj.is_exempt
     /\ (IF IsTibCall
         THEN IsNumber(call.obj, "surface_couverte") /\ ~FPositive(call.obj.surface_couverte)
         ELSE IsNumber(call.obj, "surface") /\ ~FPositive(call.obj.surface)))
    => /\ "error" \in DOMAIN result
       /\ "tax_amount" \notin DOMAIN result

\* C11: calculate_tib and calculate_ttnb end, for every snapshot, by returning
\* either a result with an error key and no tax_amount or a result with
\* tax_amount and no error key; compute_late_payment_penalty_for_year returns
\* a number, 0 when tax_year is absent; none of the three raises.
C11_TotalResultShapes ==
    /\ (IsTibCall \/ IsTtnbCall)
         => /\ "raised" \notin DOMAIN result
            /\ ("error" \in DOMAIN result) # ("tax_amount" \in DOMAIN result)
    /\ IsPenaltyCall
         => /\ DOMAIN result = {"amount"}
            /\ result.amount \in Int
            /\ (call.tax_year = 0 => result.amount = 0)

\* C12: every error result of calculate_tib and calculate_ttnb carries an
\* error key and a message key.
C12_ErrorsCarryMessage ==
    ((IsTibCall \/ IsTtnbCall) /\ "error" \in DOMAIN result)
    => "message" \in DOMAIN result

C4_StoredPenaltyIsLastRead ==
    \A i \in DOMAIN taxes :
        (taxes[i].status # PAID /\ lastRead[i] # None)
        => LET pen == compute_late_payment_penalty_for_year(
                          Money(taxes[i].tax_amount), taxes[i].tax_year,
                          SectionOf(taxes[i]), TheValue(lastRead[i]).at)
           IN  /\ taxes[i].penalty_amount = pen
               /\ taxes[i].total_amount = taxes[i].tax_amount + pen

\* a read has replaced an older non-zero penalty by a different one
C4_Witness ==
    \E i \in DOMAIN taxes :
        /\ taxes[i].status # PAID
        /\ lastRead[i] # None
        /\ TheValue(lastRead[i]).replaced
        /\ taxes[i].penalty_amount > 0
        /\ taxes[i].total_amount = taxes[i].tax_amount + taxes[i].penalty_amount

\* C5: when two concurrent reads of the same unpaid tax, both taken at the
\* same date, have completed, the stored penalty_amount and total_amount are
\* those a single read at that date stores.
C5_ConcurrentReadsAgree ==
    \A r1, r2 \in Readers :
        (/\ r1 # r2
         /\ readers[r1].pc = "done"
         /\ readers[r2].pc = "done"
         /\ readers[r1].tax_id = readers[r2].tax_id
         /\ readers[r1].today = readers[r2].today)
        => LET i == readers[r1].tax_id
               single == refresh_penalty(readers[r1].snap, SectionOf(taxes[i]),
                                         readers[r1].today)
           IN  /\ taxes[i].penalty_amount = single.penalty_amount
               /\ taxes[i].total_amount = single.total_amount
               /\ taxes[i].penalty_amount
                    = compute_late_payment_penalty_for_year(
                          Money(taxes[i].tax_amount), taxes[i].tax_year,
                          SectionOf(taxes[i]), readers[r1].today)

\* both requests loaded the row before either committed, and both wrote
C5_Witness ==
    /\ \A r \in Readers : readers[r].pc = "done" /\ readers[r].obj # readers[r].snap
    /\ readers["r1"].tax_id = readers["r2"].tax_id
    /\ readers["r1"].today = readers["r2"].today
    /\ readers["r1"].snap = readers["r2"].snap
    /\ taxes[readers["r1"].tax_id].penalty_amount > 0

ReadHandlers ==
    {"get_properties", "get_property", "get_property_taxes", "get_my_taxes",
     "get_lands", "get_land", "get_land_taxes", "check_permit_eligibility",
     "delinquency_report"}

\* the penalty of tax row i, recomputed at the current date
PenaltyNow(i) ==
    compute_late_payment_penalty_for_year(
        Money(taxes[i].tax_amount), taxes[i].tax_year, SectionOf(taxes[i]), now)

C14_WriteOnlyOnChange ==
    (call = NoCall /\ call'.fn \in ReadHandlers)
    => /\ \A i \in session'.assigned :
             \/ taxes[i].penalty_amount # PenaltyNow(i)
             \/ taxes[i].total_amount # taxes[i].tax_amount + PenaltyNow(i)
       /\ \A i \in DOMAIN taxes : i \notin session'.assigned => taxes'[i] = taxes[i]
       /\ session'.committed => session'.assigned # {}
       /\ (\A i \in DOMAIN taxes : lastRead[i] # None /\ TheValue(lastRead[i]).at = now)
            => /\ taxes' = taxes
               /\ session'.assigned = {}
               /\ ~session'.committed

\* C14: a read assigns to a tax record, and commits, only when the recomputed
\* penalty differs from the stored penalty_amount or tax_amount plus that
\* penalty differs from the stored total_amount; a read at the date of the
\* previous read leaves every record untouched and does not commit.
C14_ReadsWriteOnlyOnChange == [][C14_WriteOnlyOnChange]_vars

\* a read found a penalty stored by an earlier read of the same date, assigned
\* nothing and did not commit
C14_Witness ==
    /\ call.fn \in ReadHandlers
    /\ session.assigned = {}
    /\ ~session.committed
    /\ \E i \in DOMAIN taxes :
          /\ taxes[i].status # PAID
          /\ taxes[i].penalty_amount > 0
          /\ lastRead[i] # None
          /\ TheValue(lastRead[i]).at = now
          /\ call.fn \in {"get_property_taxes", "get_land_taxes"}

MissingPriceDeclaration(c) ==
    /\ c.fn = "declare_property"
    /\ c.data.reference_price_per_m2 = None
    /\ ~c.data.is_exempt

C9_AnswersWithError ==
    MissingPriceDeclaration(call)
    => /\ response.status >= 400
       /\ "error" \in DOMAIN response
       /\ (result # NoResult
             => "error" \in DOMAIN result /\ "tax_amount" \notin DOMAIN result)

C9_NothingPersisted ==
    (call = NoCall /\ MissingPriceDeclaration(call'))
    => UNCHANGED <<properties, declarations, taxes>>

Amounts(tax) == <<tax.tax_amount, tax.penalty_amount, tax.total_amount>>

\* C15: once a tax record is PAID, no later operation (read, renewal,
\* amendment) changes its tax_amount, penalty_amount or total_amount
C15_PaidStep ==
    \A i \in DOMAIN taxes :
        taxes[i].status = PAID =>
            /\ i \in DOMAIN taxes'
            /\ Amounts(taxes'[i]) = Amounts(taxes[i])

C15_PaidAmountsFrozen == [][C15_PaidStep]_vars


\* a step in which make_payment handles a request of the owner for tax i
PaymentStep(i) ==
    /\ call = NoCall
    /\ call'.fn = "make_payment"
    /\ call'.data.tax_id = i
    /\ call'.user_id \in TaxOwner(Database, taxes[i])

\* C16: a payment for a tax of year N made before Jan 1 of N+1 is rejected
\* with an error, changes no tax and records no payment; from Jan 1 of N+1
\* up to but excluding Jan 1 of N+2 the payment of an unpaid tax is accepted
\* and the penalty accrued at that date is 0
C16_PaymentStep ==
    \A i \in DOMAIN taxes :
        PaymentStep(i) =>
            LET N == taxes[i].tax_year
            IN  /\ DateLt(now, <<N + 1, 1, 1>>) =>
                      /\ response'.status = 400
                      /\ "error" \in DOMAIN response'
                      /\ taxes' = taxes
                      /\ payments' = payments
                /\ (/\ ~DateLt(now, <<N + 1, 1, 1>>)
                    /\ DateLt(now, <<N + 2, 1, 1>>)
                    /\ taxes[i].status # PAID) =>
                      /\ response'.status = 201
                      /\ taxes'[i].status = PAID
                      /\ \E p \in payments' \ payments : p.tax_id = i
                      /\ PenaltyNow(i) = 0

C16_PaymentWindow == [][C16_PaymentStep]_vars

\* late in a year, a payment for that year's tax has just been refused, and
\* the tax of the year before has been paid
C16_Witness ==
    /\ call.fn = "make_payment"
    /\ response.status = 400
    /\ "payable_from" \in DOMAIN response
    /\ now[2] = 12
    /\ \E p \in payments :
          /\ taxes[p.tax_id].tax_year + 1 = now[1]
          /\ taxes[p.tax_id].status = PAID

\* C17: in every reachable state there is at most one tax record per
\* (property, tax_year) and at most one per (land, tax_year)
C17_OnePerAssetYear ==
    \A i, j \in DOMAIN taxes :
        (/\ i # j
         /\ taxes[i].tax_year = taxes[j].tax_year
         /\ taxes[i].tax_type = taxes[j].tax_type) =>
            /\ taxes[i].property_id # None => taxes[i].property_id # taxes[j].property_id
            /\ taxes[i].land_id # None => taxes[i].land_id # taxes[j].land_id

\* C17: every record a declaration or a renewal creates has status CALCULATED
C17_CreatedCalculated ==
    \A i \in DOMAIN taxes' \ DOMAIN taxes : taxes'[i].status = CALCULATED

\* C17: a renewal that ends while a record of its asset and year exists,
\* created by somebody else, is rejected and creates nothing
C17_RenewalRejected ==
    \A r \in Readers :
        (/\ readers[r].pc # "done"
         /\ readers'[r].pc = "done"
         /\ existing_tax(taxes, readers'[r].req.kind, readers'[r].req.asset_id,
                         readers'[r].req.new_year) # {}) =>
            /\ readers'[r].response.status \in {400, 500}
            /\ "error" \in DOMAIN readers'[r].response
            /\ taxes' = taxes

\* C17: one tax per asset and year, created CALCULATED, under any interleaving
\* of declarations and renewals; a renewal of an existing year creates nothing
C17_OneTaxPerAssetYear ==
    []C17_OnePerAssetYear /\ [][C17_CreatedCalculated /\ C17_RenewalRejected]_vars

\* two renewals of the same asset and year passed the check together: one
\* created the record, the other was stopped at its commit
C17_Witness ==
    \E r \in Readers :
        /\ readers[r].pc = "done"
        /\ readers[r].response.status = 500
        /\ readers[r].response.error = "IntegrityError"
        /\ \E i \in existing_tax(taxes, readers[r].req.kind, readers[r].req.asset_id,
                                 readers[r].req.new_year) :
              taxes[i].status = CALCULATED

(***************************************************************************)
(* Claims about the exemption rules (SpecMatch)                            *)
(***************************************************************************)
IsMatchCall == call.fn = "_match_exemption"

\* the rule list the loaded configuration declares for a kind
DeclaredRules(kind) ==
    LET loaded == TheValue(config_loaded(cfgCache))
    IN  IF "exemptions" \in DOMAIN loaded[kind] THEN loaded[kind].exemptions ELSE <<>>

\* s is t up to the case of the letters
SameIgnoringCase(s, t) == lower(s) = lower(t)

\* the context names, under key, one of the strings of the list
Among(context, key, list) ==
    \E k \in DOMAIN list :
        SameIgnoringCase(IF key \in DOMAIN context THEN context[key] ELSE "", list[k])

\* every condition present in the rule holds for the context
Qualifies(rule, context) ==
    LET cond == IF "conditions" \in DOMAIN rule THEN rule.conditions ELSE <<>>
    IN  /\ "affectation_in" \in DOMAIN cond =>
              Among(context, "affectation", cond.affectation_in)
        /\ "land_type_in" \in DOMAIN cond =>
              Among(context, "land_type", cond.land_type_in)
        /\ "exemption_reason_in" \in DOMAIN cond =>
              Among(context, "exemption_reason", cond.exemption_reason_in)
        /\ "max_age_years" \in DOMAIN cond =>
              /\ "construction_year" \in DOMAIN context
              /\ now[1] - context.construction_year <= cond.max_age_years

\* C18: _match_exemption returns the first rule of the kind's list, in the
\* declared order, whose present conditions all hold (case-insensitive
\* membership; age at most max_age_years, failing without construction_year),
\* and None when no rule qualifies
C18_FirstQualifyingRule ==
    IsMatchCall =>
        LET rules == DeclaredRules(call.kind)
            hits == {k \in DOMAIN rules : Qualifies(rules[k], call.context)}
        IN  IF hits = {}
            THEN result.rule = None
            ELSE result.rule = Some(rules[CHOOSE k \in hits : \A h \in hits : k <= h])

\* C18: a call of _match_exemption changes neither the stored rows nor the
\* configuration, the clock or the registry of services
C18_NoStateChange ==
    (call = NoCall /\ call'.fn = "_match_exemption") =>
        /\ UNCHANGED <<dbVars, now, services, payments, permits>>
        /\ config_loaded(cfgCache') = config_loaded(cfgCache)

AssetContext(obj) ==
    Context(IF "affectation" \in DOMAIN obj THEN obj.affectation ELSE None,
            IF "land_type" \in DOMAIN obj THEN obj.land_type ELSE None,
            obj.exemption_reason,
            IF "construction_year" \in DOMAIN obj THEN obj.construction_year ELSE None)

\* a rule declared for the kind qualifies for the asset of the call
RuleMatchesAsset(kind) ==
    \E k \in DOMAIN DeclaredRules(kind) :
        Qualifies(DeclaredRules(kind)[k], AssetContext(call.obj))

\* C19: whenever a configured exemption rule of the kind matches the asset,
\* the tax calculate_tib / calculate_ttnb return is the zero-tax result, also
\* when the asset's is_exempt flag is false; a computed tax is produced only
\* when no rule matches
C19_RuleMatchGivesZeroTax ==
    /\ (IsTibCall /\ RuleMatchesAsset("TIB") /\ "tax_amount" \in DOMAIN result) =>
          /\ result.tax_amount = 0
          /\ result.total_amount = 0
    /\ (IsTtnbCall /\ RuleMatchesAsset("TTNB") /\ "tax_amount" \in DOMAIN result) =>
          /\ result.tax_amount = 0
          /\ result.total_amount = 0

(***************************************************************************)
(* Claims about rounding (SpecRound)                                       *)
(***************************************************************************)
\* the currency_decimals the loaded configuration sets for a section
ConfiguredDecimals(section) ==
    LET loaded == TheValue(config_loaded(cfgCache))
    IN  IF section \in DOMAIN loaded /\ "rounding" \in DOMAIN loaded[section]
        THEN loaded[section].rounding.currency_decimals ELSE 3

\* units * 10^-decimals is the value nearest to exact (the even one on a tie)
\* (both sides of the comparison are divided by g to keep the numbers small)
NearestAt(units, exact, decimals) ==
    LET g == GCD(Pow10(decimals), exact[2])
        distance == Abs(exact[1] * (Pow10(decimals) \div g) - units * (exact[2] \div g))
    IN  /\ 2 * distance <= exact[2] \div g
        /\ 2 * distance = exact[2] \div g => units % 2 = 0

\* the returned amount is the exact one rounded once at the precision of the
\* section, and rounding it again gives it back
RoundedOnce(units, exact, section) ==
    /\ NearestAt(units, exact, ConfiguredDecimals(section))
    /\ _round(Frac(units, Pow10(ConfiguredDecimals(section))), section) = units

\* months of penalty a tax of year N has accrued at date d
MonthsLate(N, d) ==
    IF N = 0 \/ d[1] < N + 2 THEN 0 ELSE 12 * (d[1] - (N + 2)) + (d[2] - 1)

\* C20: base_amount, tax_amount and total_amount of calculate_tib and
\* calculate_ttnb and the amount of compute_late_payment_penalty_for_year
\* are the exact amounts rounded exactly once at the currency_decimals
\* configured for the section (default 3); rounding them again changes nothing
C20_RoundedExactlyOnce ==
    /\ (IsTibCall /\ "tax_amount" \in DOMAIN result) =>
          LET obj == call.obj
              assiette == IF obj.is_exempt THEN <<0, 1>>
                          ELSE Frac(2 * TheValue(obj.reference_price_per_m2)[1]
                                      * obj.surface_couverte[1],
                                    100 * TheValue(obj.reference_price_per_m2)[2]
                                        * obj.surface_couverte[2])
              tib == Frac(assiette[1] * result.rate_percent, assiette[2] * 100)
          IN  /\ RoundedOnce(result.base_amount, assiette, "TIB")
              /\ RoundedOnce(result.tax_amount, tib, "TIB")
              /\ RoundedOnce(result.total_amount, tib, "TIB")
    /\ (IsTtnbCall /\ "tax_amount" \in DOMAIN result) =>
          LET obj == call.obj
              ttnb == IF obj.is_exempt THEN <<0, 1>>
                      ELSE Frac(obj.surface[1] * result.tariff_per_m2[1],
                                obj.surface[2] * result.tariff_per_m2[2])
          IN  /\ RoundedOnce(result.base_amount, ttnb, "TTNB")
              /\ RoundedOnce(result.tax_amount, ttnb, "TTNB")
              /\ RoundedOnce(result.total_amount, ttnb, "TTNB")
    /\ IsPenaltyCall =>
          LET P == call.tax_amount
              penalty == Frac(P[1] * 125 * MonthsLate(call.tax_year, call.today),
                              P[2] * 10000)
          IN  RoundedOnce(result.amount, penalty, call.section)

\* a tax whose exact amount has more digits than the two decimals configured
\* for its section has been returned
C20_Witness ==
    /\ IsTibCall
    /\ "services_count" \in DOMAIN result
    /\ ConfiguredDecimals("TIB") = 2
    /\ result.tax_amount # 0
    /\ LET obj == call.obj
           tib == Frac(2 * TheValue(obj.reference_price_per_m2)[1] * obj.surface_couverte[1]
                         * result.rate_percent,
                       10000 * TheValue(obj.reference_price_per_m2)[2]
                             * obj.surface_couverte[2])
       IN  tib[2] > 100

(***************************************************************************)
(* Threads inside TaxCalculator._load_config, statement by statement       *)
(***************************************************************************)
LoadThreads == {"t1", "t2"}

LoadAmounts == {<<123456, 100000>>, <<5, 2000>>}

\* {}: the dictionary with no key
EmptyDict == <<>>

\* dict.setdefault(key, value): the dictionary keeps a key it already has
setdefault(d, key, value) == IF key \in DOMAIN d THEN d ELSE d @@ (key :> value)

\* the statements that follow the assignment of cls._cfg, in order; a path of
\* one key is cls._cfg.setdefault(key, {}), a path of two keys is
\* cls._cfg[section].setdefault(key, value)
load_statements ==
    << [path |-> <<"TIB">>, value |-> EmptyDict],
       [path |-> <<"TIB", "surface_categories">>, value |-> <<"A", "B", "C", "D">>],
       [path |-> <<"TIB", "service_rates">>,
        value |-> << <<0, 8>>, <<2, 10>>, <<3, 12>>, <<4, 14>> >>],
       [path |-> <<"TIB", "rounding">>,
        value |-> [currency_decimals |-> currency_decimals]],
       [path |-> <<"TIB", "exemptions">>, value |-> <<>>],
       [path |-> <<"TTNB">>, value |-> EmptyDict],
       [path |-> <<"TTNB", "base_rate_percent">>, value |-> <<3, 1000>>],
       [path |-> <<"TTNB", "rounding">>,
        value |-> [currency_decimals |-> currency_decimals]],
       [path |-> <<"TTNB", "exemptions">>, value |-> <<>>] >>

\* cls._cfg[section] of a dictionary that has no such key: KeyError
raises_KeyError(d, st) == Len(st.path) = 2 /\ st.path[1] \notin DOMAIN d

\* the dictionary cls._cfg refers to after one of the statements
apply_statement(d, st) ==
    IF Len(st.path) = 1 THEN setdefault(d, st.path[1], st.value)
    ELSE [d EXCEPT ![st.path[1]] = setdefault(@, st.path[2], st.value)]

RECURSIVE apply_statements(_, _)
apply_statements(d, i) ==
    IF i > Len(load_statements) THEN d
    ELSE apply_statements(apply_statement(d, load_statements[i]), i + 1)

\* the table one call of _load_config builds when no other thread runs
load_config_alone == apply_statements(EmptyDict, 1)

\* round(float(amount), decimals) with the decimals of a given table
round_in(config, amount, section) ==
    LET scale == Pow10(section_decimals(config, section))
        g == GCD(scale, amount[2])
    IN  RoundHalfEven(amount[1] * (scale \div g), amount[2] \div g)

IdleThread == [pc |-> "idle", at |-> 0, amount |-> <<0, 1>>, section |-> "TIB",
               out |-> NoResult]

LoadFrame == UNCHANGED <<call, result, now, services, dbVars, response, lastRead,
                         payments, permits, session, penaltySeen>>

LoadInit ==
    /\ call = NoCall
    /\ result = NoResult
    /\ services = ServiceStore(3, 0)
    /\ now = <<MinYear, 1, 1>>
    /\ properties = {}
    /\ lands = {}
    /\ declarations = {}
    /\ taxes = <<>>
    /\ response = NoResponse
    /\ lastRead = <<>>
    /\ readers = [t \in LoadThreads |-> IdleThread]
    /\ payments = {}
    /\ permits = {}
    /\ session = NoSession
    /\ cfgCache = None
    /\ penaltySeen = None

\* a calculator reaches cls._round(amount, section), which calls _load_config
RoundCall(t) ==
    /\ readers[t].pc = "idle"
    /\ \E amount \in LoadAmounts, section \in Sections :
          readers' = [readers EXCEPT ![t] = [IdleThread EXCEPT !.pc = "test",
                                             !.amount = amount, !.section = section]]
    /\ UNCHANGED cfgCache
    /\ LoadFrame

\* if cls._cfg is not None: return cls._cfg
LoadTest(t) ==
    /\ readers[t].pc = "test"
    /\ readers' = [readers EXCEPT ![t].pc = IF cfgCache # None THEN "return"
                                            ELSE "assign"]
    /\ UNCHANGED cfgCache
    /\ LoadFrame

\* the file cannot be opened: cls._cfg = {}
LoadAssign(t) ==
    /\ readers[t].pc = "assign"
    /\ cfgCache' = Some(EmptyDict)
    /\ readers' = [readers EXCEPT ![t].pc = "defaults", ![t].at = 1]
    /\ LoadFrame

\* one setdefault statement, on the dictionary cls._cfg refers to now
LoadDefault(t) ==
    /\ readers[t].pc = "defaults"
    /\ LET st == load_statements[readers[t].at]
           d == TheValue(cfgCache)
       IN  IF raises_KeyError(d, st)
           THEN /\ readers' = [readers EXCEPT ![t].pc = "done",
                                              ![t].out = Raised("KeyError")]
                /\ UNCHANGED cfgCache
           ELSE /\ cfgCache' = Some(apply_statement(d, st))
                /\ readers' = [readers EXCEPT
                                  ![t].pc = IF readers[t].at = Len(load_statements)
                                            THEN "return" ELSE "defaults",
                                  ![t].at = IF readers[t].at = Len(load_statements)
                                            THEN 0 ELSE @ + 1]
    /\ LoadFrame

\* return cls._cfg, and _round rounds with the decimals it finds there
LoadReturn(t) ==
    /\ readers[t].pc = "return"
    /\ readers' = [readers EXCEPT
                      ![t].pc = "done",
                      ![t].out = [amount |-> round_in(TheValue(cfgCache),
                                                      readers[t].amount,
                                                      readers[t].section)]]
    /\ UNCHANGED cfgCache
    /\ LoadFrame

\* the calculator call is over; the thread may make another one
LoadFinish(t) ==
    /\ readers[t].pc = "done"
    /\ readers' = [readers EXCEPT ![t] = IdleThread]
    /\ UNCHANGED cfgCache
    /\ LoadFrame

LoadNext ==
    \/ \E t \in LoadThreads : RoundCall(t)
    \/ \E t \in LoadThreads : LoadTest(t)
    \/ \E t \in LoadThreads : LoadAssign(t)
    \/ \E t \in LoadThreads : LoadDefault(t)
    \/ \E t \in LoadThreads : LoadReturn(t)
    \/ \E t \in LoadThreads : LoadFinish(t)

SpecLoad == LoadInit /\ [][LoadNext]_vars

(***************************************************************************)
(* Claims about concurrent calculator calls (SpecLoad)                     *)
(***************************************************************************)
\* C21: whatever the interleaving of concurrent calculator invocations, the
\* first ones that fill the configuration cache included, every invocation
\* returns the result it returns when it runs alone
C21_SameResultAsAlone ==
    \A t \in LoadThreads :
        readers[t].pc = "done" =>
            readers[t].out = [amount |-> round_in(load_config_alone,
                                                  readers[t].amount,
                                                  readers[t].section)]

(***************************************************************************)
(* Claims about the service count and the service rate (SpecCalc)          *)
(***************************************************************************)
\* C22: calculate_tib depends on the asset snapshot only: the result of a
\* call is the result the same snapshot gets under any other contents of the
\* municipal service configuration storage
C22_IndependentOfStorage ==
    call.fn = "calculate_tib" =>
        \A store \in ServiceStores : result = calculate_tib(call.obj, store)

\* the available rows of the storage that belong to the commune of a property
AvailableInCommune(obj) ==
    {r \in services : obj.commune_id = Some(r.commune_id) /\ r.is_available}

\* the locality of a property, "" when it has none
LocalityOf(obj) ==
    IF obj.delegation = None THEN "" ELSE strip(TheValue(obj.delegation))

\* C23: the service count of a property is the number of available services
\* of its commune configured for its locality (names compared ignoring case)
\* when there is at least one, and otherwise the number of available
\* commune-wide services; the two counts are never added, and a property
\* without a locality gets the commune-wide count
C23_ServiceCount ==
    (call.fn = "calculate_tib" /\ "services_count" \in DOMAIN result) =>
        LET rows == AvailableInCommune(call.obj)
            own == {r \in rows : /\ r.locality_name # None
                                 /\ lower(TheValue(r.locality_name))
                                        = lower(LocalityOf(call.obj))}
            wide == {r \in rows : r.locality_name = None}
        IN  result.services_count =
                IF LocalityOf(call.obj) # "" /\ Cardinality(own) >= 1
                THEN Cardinality(own) ELSE Cardinality(wide)

\* cfg['TIB']['service_rates'] of the built-in table: <<min_services, rate_percent>>
service_rates == << <<0, 8>>, <<2, 10>>, <<3, 12>>, <<4, 14>> >>

\* the loop of _get_service_rate: every band the count reaches replaces the rate
RECURSIVE scan_bands(_, _, _, _)
scan_bands(bands, i, num_services, applicable) ==
    IF i > Len(bands) THEN applicable
    ELSE scan_bands(bands, i + 1, num_services,
                    IF num_services >= bands[i][1] THEN bands[i][2] ELSE applicable)

\* TaxCalculator._get_service_rate: applicable / 100.0
_get_service_rate(num_services) ==
    Frac(scan_bands(service_rates, 1, num_services, 0), 100)

\* C24: for every service count the rate calculate_tib applies is the rate
\* _get_service_rate reads from the service_rates bands of the configuration
\* table
C24_RateFromConfiguredBands ==
    (call.fn = "calculate_tib" /\ "services_count" \in DOMAIN result) =>
        result.rate_percent = rate_percent_of(_get_service_rate(result.services_count))

(***************************************************************************)
(* Claims about the surface category (SpecCalc)                            *)
(***************************************************************************)
\* the call in progress is calculate_tib on a non-exempt property that has a
\* surface and a reference price
IsCategorised ==
    /\ call.fn = "calculate_tib"
    /\ "category" \in DOMAIN result

\* C25: for a non-exempt property with a reference price the category is 1
\* when surface <= 100, 2 when 100 < surface <= 200, 3 when 200 < surface
\* <= 400 and 4 when surface > 400, and base_amount and tax_amount are what
\* surface, price and rate give, whatever the category
C25_CategoryLadder ==
    IsCategorised =>
        LET surface == call.obj.surface_couverte
            price == TheValue(call.obj.reference_price_per_m2)
            base == FMul(Frac(2, 100), FMul(price, surface))
            above(bound) == ~FLeq(surface, <<bound, 1>>)
        IN  /\ result.category = 1 <=> ~above(100)
            /\ result.category = 2 <=> above(100) /\ ~above(200)
            /\ result.category = 3 <=> above(200) /\ ~above(400)
            /\ result.category = 4 <=> above(400)
            /\ result.base_amount = _round(base, "TIB")
            /\ result.tax_amount = _round(FMul(base, Frac(result.rate_percent, 100)), "TIB")

\* a taxed property whose surface is exactly 400 has been put in category 3
C25_Witness ==
    /\ IsCategorised
    /\ call.obj.surface_couverte = <<400, 1>>
    /\ result.category = 3
    /\ result.tax_amount > 0

(***************************************************************************)
(* Payment requests running concurrently: make_payment reads the tax and   *)
(* tests its status (payment.py 82-104) in one database round trip and     *)
(* commits the payment (107-120) in another                                *)
(***************************************************************************)
PayFrame == UNCHANGED <<call, result, services, properties, lands, declarations, permits,
                        lastRead, session, cfgCache, penaltySeen>>

\* one asset has been declared and its tax is unpaid
PayInit ==
    /\ cfgCache = Some(_load_config)
    /\ call = NoCall
    /\ result = NoResult
    /\ response = NoResponse
    /\ services = ServiceStore(3, 0)
    /\ now = <<MinYear, 1, 1>>
    /\ \E db \in {DeclaredProperty, DeclaredLand} :
          /\ properties = db.properties
          /\ lands = db.lands
          /\ declarations = db.declarations
          /\ taxes = db.taxes
          /\ lastRead = [i \in DOMAIN db.taxes |-> None]
    /\ readers = [r \in Readers |-> IdleReader]
    /\ payments = {}
    /\ permits = {}
    /\ session = NoSession
    /\ penaltySeen = None

\* make_payment up to the payable window test, on the row as it is now
PayCheck(r) ==
    /\ readers[r].pc = "idle"
    /\ \E user_id \in Users, tax_id \in 1..MaxTaxes :
          LET data == [tax_id |-> tax_id, amount |-> 1000]
          IN  \E out \in {make_payment_outcome(user_id, data, Database, payments, now)} :
                  readers' = [readers EXCEPT ![r] =
                                 IF out.response.status = 201
                                 THEN [pc |-> "checked", user_id |-> user_id,
                                       data |-> data]
                                 ELSE [pc |-> "done", user_id |-> user_id,
                                       data |-> data, response |-> out.response]]
    /\ UNCHANGED <<now, taxes, payments, permits, response>>
    /\ PayFrame

\* payment = Payment(...); tax.status = PAID; db.session.add; db.session.commit
PayCommit(r) ==
    /\ readers[r].pc = "checked"
    /\ LET rd == readers[r]
           payment == [id |-> NextId(payments), user_id |-> rd.user_id,
                       tax_id |-> rd.data.tax_id, amount |-> rd.data.amount,
                       status |-> "completed"]
       IN  /\ payments' = payments \cup {payment}
           /\ taxes' = [taxes EXCEPT ![rd.data.tax_id].status = PAID]
           /\ readers' = [readers EXCEPT ![r] =
                             [pc |-> "done", user_id |-> rd.user_id, data |-> rd.data,
                              response |-> [status |-> 201, payment_id |-> payment.id,
                                            amount |-> payment.amount]]]
    /\ UNCHANGED <<now, response>>
    /\ PayFrame

\* the response is sent and the request ends
PayFinish(r) ==
    /\ readers[r].pc = "done"
    /\ readers' = [readers EXCEPT ![r] = IdleReader]
    /\ UNCHANGED <<now, taxes, payments, permits, response>>
    /\ PayFrame

\* bulk_payment on a list of rows: building each Payment raises NameError
\* (reports.py does not import PaymentStatus), the handler records the error
\* of the row and goes on; nothing is added to the session before the commit
bulk_payment ==
    /\ \E rows \in 1..MaxTaxes :
          response' = [status |-> 201, processed |-> 0, errors |-> rows]
    /\ UNCHANGED <<now, taxes, payments, permits, readers>>
    /\ PayFrame

PayNext ==
    \/ \E r \in Readers : PayCheck(r)
    \/ \E r \in Readers : PayCommit(r)
    \/ \E r \in Readers : PayFinish(r)
    \/ bulk_payment
    \/ NewYear

SpecPay == PayInit /\ [][PayNext]_vars

(***************************************************************************)
(* Claims about concurrent payments (SpecPay)                              *)
(***************************************************************************)
\* the completed payments recorded for a tax
CompletedPayments(tax_id) ==
    {q \in payments : q.tax_id = tax_id /\ q.status = "completed"}

\* C26: whatever the interleaving of payment requests on a tax, at most one
\* completed payment is recorded for it, a request on a tax that is already
\* PAID being rejected
C26_AtMostOnePayment ==
    \A tax_id \in DOMAIN taxes : Cardinality(CompletedPayments(tax_id)) <= 1

(***************************************************************************)
(* Permits (permits.py): request_permit, make_permit_decision              *)
(***************************************************************************)
MaxPermits == 1

PENDING == "pending"

APPROVED == "approved"

REJECTED == "rejected"

\* the names of the members of PermitStatus, by the lower-case word a
\* decision carries; PermitStatus[data['status'].upper()] raises KeyError for
\* any other word
PermitStatusByName == [approved |-> APPROVED, rejected |-> REJECTED]

\* the urbanism officer who decides
Officer == 9

\* variant: no tax is ever reported as unpaid
unpaid_none(ids) == {}

\* unpaid = [t for t in taxes if t.status != TaxStatus.PAID]
unpaid(ids) == {i \in ids : taxes[i].status # PAID}

PermitFrame == UNCHANGED <<result, now, services, properties, lands, declarations,
                           readers, payments, penaltySeen>>

\* request_permit: refresh of the penalties of the user's unpaid taxes, then
\* either the 403 answer or the new PENDING permit
request_permit ==
    /\ call = NoCall
    /\ \E user_id \in Users :
          /\ call' = [fn |-> "request_permit", user_id |-> user_id]
          /\ IF unpaid(TaxesOfUser(user_id)) # {}
             THEN /\ RefreshTaxes(TaxesOfUser(user_id), None)
                  /\ response' = [status |-> 403, error |-> "Unpaid taxes",
                                  unpaid_count |->
                                      Cardinality(unpaid(TaxesOfUser(user_id)))]
                  /\ UNCHANGED permits
             ELSE /\ Cardinality(permits) < MaxPermits
                  /\ permits' = permits \cup
                         {[id |-> NextId(permits), user_id |-> user_id,
                           status |-> PENDING, decision_date |-> None,
                           notes |-> None]}
                  /\ response' = [status |-> 201, permit_id |-> NextId(permits)]
                  /\ session' = [assigned |-> {}, committed |-> TRUE]
                  /\ UNCHANGED <<taxes, lastRead, cfgCache>>
    /\ PermitFrame

\* the permits after make_permit_decision, and the answer
permit_decision_outcome(permit_id, data, rows, today) ==
    IF ~\E q \in rows : q.id = permit_id
    THEN [permits |-> rows, response |-> [status |-> 404, error |-> "Resource not found"]]
    ELSE
      LET permit == CHOOSE q \in rows : q.id = permit_id
      IN  IF data.status = "approved" /\ unpaid(TaxesOfUser(permit.user_id)) # {}
          THEN [permits |-> rows,
                response |-> [status |-> 403,
                              error |-> "Taxes no longer paid - cannot approve"]]
          ELSE IF data.status \notin DOMAIN PermitStatusByName
          THEN [permits |-> rows, response |-> [status |-> 500, error |-> "KeyError"]]
          ELSE [permits |-> (rows \ {permit}) \cup
                                {[permit EXCEPT
                                     !.status = PermitStatusByName[data.status],
                                     !.decision_date = Some(today),
                                     !.notes = data.notes]},
                response |-> [status |-> 200, permit_id |-> permit_id]]

make_permit_decision ==
    /\ call = NoCall
    /\ \E permit_id \in 1..MaxPermits, status \in {"approved", "rejected", "blocked"},
          notes \in {None, Some("complete file")} :
          LET data == [status |-> status, notes |-> notes]
          IN  \E out \in {permit_decision_outcome(permit_id, data, permits, now)} :
                  /\ call' = [fn |-> "make_permit_decision", user_id |-> Officer,
                              permit_id |-> permit_id, data |-> data]
                  /\ permits' = out.permits
                  /\ response' = out.response
                  /\ session' = [assigned |-> {}, committed |-> out.response.status = 200]
    /\ UNCHANGED <<taxes, lastRead, cfgCache>>
    /\ PermitFrame

PermitNext ==
    \/ request_permit
    \/ make_permit_decision
    \/ make_payment
    \/ renew_property_tax
    \/ renew_land_tax
    \/ NewYear
    \/ Respond

SpecPermit == LifeInit /\ [][PermitNext]_vars

(***************************************************************************)
(* Claims about permits (SpecPermit)                                       *)
(***************************************************************************)
\* every tax of the user was PAID when the step began
AllPaid(user_id) == \A i \in TaxesOfUser(user_id) : taxes[i].status = PAID

\* the permits the step created, and those it turned to APPROVED
CreatedPermits == {q \in permits' : ~\E o \in permits : o.id = q.id}

NewlyApproved ==
    {q \in permits' : q.status = APPROVED /\ \E o \in permits : o.id = q.id /\ o # q}

\* a step that serves a permit request, or a decision asking for approval
RequestStep == call = NoCall /\ call'.fn = "request_permit"

ApprovalStep ==
    /\ call = NoCall
    /\ call'.fn = "make_permit_decision"
    /\ call'.data.status = "approved"

C27_PermitStep ==
    /\ \A q \in CreatedPermits : RequestStep /\ q.user_id = call'.user_id /\ AllPaid(q.user_id)
    /\ \A q \in NewlyApproved : ApprovalStep /\ AllPaid(q.user_id)
    /\ (RequestStep /\ ~AllPaid(call'.user_id)) =>
           (response'.status = 403 /\ permits' = permits)
    /\ (ApprovalStep /\ response'.status = 403) => permits' = permits
    /\ \A q \in permits :
           (ApprovalStep /\ q.id = call'.permit_id /\ ~AllPaid(q.user_id)) =>
               (response'.status = 403 /\ q \in permits')

\* C27: a permit is created only by a request of a user none of whose taxes
\* has a status other than PAID, a permit becomes APPROVED only by a decision
\* taken while its owner has no such tax, a refused request creates no
\* permit, and a refused approval leaves the permit as it was (status,
\* decision date and notes)
C27_PermitsRequirePaidTaxes == [][C27_PermitStep]_vars

\* a rejected permit whose owner has an unpaid tax has been refused approval
\* in a later year and with other notes: it keeps what the rejection wrote
C27_Witness ==
    /\ call.fn = "make_permit_decision"
    /\ call.data.status = "approved"
    /\ response.status = 403
    /\ \E q \in permits : /\ q.id = call.permit_id
                          /\ q.status = REJECTED
                          /\ q.notes # None
                          /\ q.notes # call.data.notes
                          /\ q.decision_date # Some(now)

(***************************************************************************)
(* Claims about the stored amounts and the penalty (SpecLife, SpecCalc,    *)
(* SpecConc)                                                               *)
(***************************************************************************)
\* C28: in every reachable state every tax record has
\* total_amount = tax_amount + penalty_amount, whatever renewals, amendments,
\* reads and payments came before
C28_TotalIsTaxPlusPenalty ==
    \A i \in DOMAIN taxes :
        taxes[i].total_amount = taxes[i].tax_amount + taxes[i].penalty_amount

\* the call in progress computes the penalty of a principal >= 0 for a tax year
IsDatedPenaltyCall ==
    /\ call.fn = "compute_late_payment_penalty_for_year"
    /\ call.tax_year # 0
    /\ call.tax_amount[1] >= 0

\* the penalty of the call in progress, had it been computed at another date
PenaltyAt(d) ==
    compute_late_payment_penalty_for_year(call.tax_amount, call.tax_year, call.section, d)

\* Feb 1 of N+2
FirstIncrease(tax_year) == <<tax_year + 2, 2, 1>>

\* non-decreasing in the date, constant within a calendar month, 0 until the
\* end of January of N+2
PenaltySteps ==
    /\ \A d \in Dates : ~DateLt(call.today, d) => PenaltyAt(d) <= result.amount
    /\ \A d \in Dates :
           (d[1] = call.today[1] /\ d[2] = call.today[2]) => PenaltyAt(d) = result.amount
    /\ DateLt(call.today, FirstIncrease(call.tax_year)) => result.amount = 0

\* C29 as stated: the penalty is non-decreasing in the date, changes only on
\* the first day of a month, is 0 throughout January of N+2 and, for a
\* positive principal, is positive from Feb 1 of N+2 on
C29_PositiveFromFebruary ==
    IsDatedPenaltyCall =>
        /\ PenaltySteps
        /\ (call.tax_amount[1] > 0 /\ ~DateLt(call.today, FirstIncrease(call.tax_year)))
               => result.amount > 0

\* C29 (amended): the penalty is non-decreasing in the date, changes only on
\* the first day of a month and is 0 throughout January of N+2; it is
\* positive from Feb 1 of N+2 on when 1.25% of the principal rounds to a
\* positive amount at the precision of the section, and a smaller positive
\* principal gets its first positive penalty in a later month or never
C29_PositiveOnceItRoundsUp ==
    IsDatedPenaltyCall =>
        /\ PenaltySteps
        /\ (/\ _round(FMul(call.tax_amount, Frac(125, 10000)), call.section) > 0
            /\ ~DateLt(call.today, FirstIncrease(call.tax_year)))
               => result.amount > 0

\* a penalty computed on Feb 1 of N+2 for a positive principal is positive,
\* after being 0 on Jan 28
C29_Witness ==
    /\ IsDatedPenaltyCall
    /\ call.tax_amount[1] > 0
    /\ call.today = FirstIncrease(call.tax_year)
    /\ result.amount > 0
    /\ PenaltyAt(<<call.tax_year + 2, 1, 28>>) = 0

\* a step leaves the stored penalty of every unpaid tax whose tax_amount it
\* does not change at least as large as it was
C30_PenaltyStep ==
    \A i \in DOMAIN taxes :
        (/\ i \in DOMAIN taxes'
         /\ taxes[i].status # PAID
         /\ taxes'[i].tax_amount = taxes[i].tax_amount)
            => taxes'[i].penalty_amount >= taxes[i].penalty_amount

\* C30: while the tax_amount of an unpaid tax is unchanged its stored
\* penalty_amount never decreases, whatever the interleaving of the reads
\* that recompute it at the date they sample and commit afterwards
C30_StoredPenaltyNeverDecreases == [][C30_PenaltyStep]_vars

====
